---- MODULE Spec2Model ----
(***************************************************************************)
(* Undo engine of the roosterjs editor core.                               *)
(*                                                                         *)
(* runWithUndo (coreAPI/runWithUndo.ts) and the Undo API of Editor.ts are  *)
(* translated from the source.  A callback is arbitrary caller code, so a  *)
(* call of runWithUndo is three steps of the state machine: its entry      *)
(* (lines 10-15), the steps of the callback (content changes, nested       *)
(* calls, a throw), and its exit (lines 20-37).  The call stack is the     *)
(* variable `stack`; a pending exception is the variable `exc`.            *)
(*                                                                         *)
(* The undo service behind core.undo (Undo.ts / UndoSnapshots.ts) is not   *)
(* part of the sources at hand; the operators UndoService_* follow the     *)
(* description of spec.md, section 4.6 and section 3 (UndoSnapshot).       *)
(***************************************************************************)
EXTENDS Integers, Sequences, FiniteSets, TLC

\* ---------------------------------------------------------------- bounds
\* Document contents are 0..MaxContent; content c has c characters.
MaxContent == 1
\* Deepest call stack explored.
MaxDepth == 2
\* Most events logged for one top-level operation.
MaxTrace == 7
\* Count budget of the snapshot stack.
MaxSnapshots == 2
\* Most plugins configured for an editor.
MaxPlugins == 1
\* Most custom data entries of an editor.
MaxData == 2
\* Most callbacks waiting for an animation frame.
MaxFrames == 2
\* Most blocks under the root, and most inline runs of a block.
MaxBlocks == 2
MaxRuns == 2
\* Most stepping calls made on one traverser.
MaxSteps == 3
\* Most nodes of a page besides the content div, and longest text of a node.
MaxNodes == 3
MaxText == 2
\* Most getRange() calls made on one SelectionRange.
MaxCalls == 2

\* ------------------------------------------------------------ value sets
Undefined == "undefined"
Null == "null"
NoException == "none"

Contents == 0..MaxContent
\* A selection is a caret at the start or at the end of the content.
Length(c) == c
Selections(c) == {0, Length(c)}

\* <<changeSource, getDataCallback>> arguments a caller passes to
\* Editor.runWithUndo: changeSource omitted, null, empty or a string;
\* getDataCallback omitted or a callback returning "data"
CallArgs == {<<Undefined, Undefined>>, <<Null, "data">>, <<"", Undefined>>,
             <<"Paste", "data">>}
\* callback argument: absent or present
CallbackArgs == {Undefined, "callback"}
Exceptions == {"E1", "E2"}

VARIABLES
    content,        \* contentDiv.innerHTML
    selection,      \* current selection offset
    snapshots,      \* core.undo: stored snapshots, oldest first
    currentIndex,   \* core.undo: index of the current snapshot, 0 if none
    suspendUndo,    \* core.suspendUndo
    stack,          \* call stack of runWithUndo / runWithoutAddingUndoSnapshot
    exc,            \* exception in flight, NoException if none
    trace,          \* log of the current (or last) top-level operation
    last,           \* the last top-level operation, its entry and its outcome
    \* the Editor object and its host (Editor.ts, lifecycle)
    core,           \* this.core: Undefined before construction, Null after dispose
    plugins,        \* core.plugins: the state of each plugin, in list order
    eventDisposers, \* this.eventDisposers: Undefined, "array" or Null
    attached,       \* host: the DOM event subscriptions still attached
    customData,     \* core.customData: the entries in insertion order
    idleLoopHandle, \* core.idleLoopHandle
    timerActive,    \* host: the interval timer of the idle loop is armed
    ignoreIdleEvent,\* core.ignoreIdleEvent
    editable,       \* host: contentDiv carries the contenteditable attribute
    omitContentEditable, \* this.omitContentEditable
    frames,         \* host: callbacks waiting for their animation frame
    lifeLast,       \* the last lifecycle operation and what it did
    \* a content traverser and the document it walks
    doc,            \* the blocks under the root, each a number of inline runs
    scoper,         \* the scoper the traverser was built with
    traverser,      \* the cursor: current block and current inline element
    visited,        \* the stepping calls made so far and what each returned
    \* the DOM tree of the page and the objects made over it
    childNodes,     \* node.childNodes of the content div and of every node
    nodeName,       \* node.nodeName of every node
    nodeData,       \* length of (<Text>node).data; 0 for other nodes
    selectionRange, \* host: the selection range of the editor, if any
    instance,       \* a SelectionRange object
    created,        \* host: number of native ranges document.createRange() made
    answer,         \* the last call made on the tree and what it returned
    cachedSelectionRange,           \* core.cachedSelectionRange
    disableRestoreSelectionOnFocus  \* this.disableRestoreSelectionOnFocus

undoVars == <<content, selection, snapshots, currentIndex, suspendUndo, stack,
              exc, trace, last>>
lifeVars == <<core, plugins, eventDisposers, attached, customData,
              idleLoopHandle, timerActive, ignoreIdleEvent, editable,
              omitContentEditable, frames, lifeLast>>
travVars == <<doc, scoper, traverser, visited>>
focusVars == <<cachedSelectionRange, disableRestoreSelectionOnFocus>>
domVars == <<childNodes, nodeName, nodeData, selectionRange, instance, created,
             answer, focusVars>>
vars == <<undoVars, lifeVars, travVars, domVars>>

\* ------------------------------------------------------------ log events
\* `trace` logs the top-level operation: the steps of the call entered from
\* the top level (enter, callback, done, exit) and, for every call at any
\* depth, each invocation of core.undo.addUndoSnapshot, each ContentChanged
\* event and each entry that found the suppression flag clear.
Ev(e, a, b, c) == [ev |-> e, a |-> a, b |-> b, c |-> c]
Role(nested) == IF nested THEN "nested" ELSE "outermost"
\* a call of Editor.runWithUndo with its changeSource and getDataCallback arguments
EvEnter(nested, csArg, getData) == Ev("enter", Role(nested), csArg, getData)
EvSnapshot(nested) == Ev("snapshot", Role(nested), "", "")
EvCallback == Ev("callback", "", "", "")
EvDone(how, e) == Ev("done", how, e, "")
EvNotify(source, data) == Ev("notify", source, data, "")
EvExit(how, e) == Ev("exit", how, e, "")
EvDeprecated == Ev("runWithoutAddingUndoSnapshot", "", "", "")

IsSnapshot(e) == e.ev = "snapshot"
IsNotify(e) == e.ev = "notify"
IsOutermostEnter(e) == e.ev = "enter" /\ e.a = "outermost"
IsThrow(e) == e.ev = "done" /\ e.a = "threw"
LoggedAtAnyDepth(e) == IsSnapshot(e) \/ IsNotify(e) \/ IsOutermostEnter(e)

Count(t, P(_)) == Cardinality({i \in 1..Len(t) : P(t[i])})
\* the events a call at depth d adds to the log; the log keeps the arguments
\* of the call entered from the top level only
Anonymous(e) == IF e.ev = "enter" THEN [e EXCEPT !.b = "", !.c = ""] ELSE e
Log(d, events) ==
    IF d = 1 THEN events
    ELSE LET kept == SelectSeq(events, LoggedAtAnyDepth)
         IN  [i \in 1..Len(kept) |-> Anonymous(kept[i])]

\* --------------------------------------------- undo service (core.undo)
Snapshot(c, s) == [html |-> c, sel |-> s]

\* faulty variant: the newest entries are dropped
Evict_newest(snaps) ==
    IF Len(snaps) > MaxSnapshots THEN SubSeq(snaps, 1, MaxSnapshots) ELSE snaps

\* Drop the oldest entries while the stack is over its budget.
Evict(snaps) ==
    IF Len(snaps) > MaxSnapshots
    THEN SubSeq(snaps, Len(snaps) - MaxSnapshots + 1, Len(snaps))
    ELSE snaps

\* faulty variant: a snapshot is compared by content and selection
UndoSnapshots_addSnapshot_withSelection(snaps, idx, snap) ==
    IF idx >= 1 /\ snaps[idx] = snap
    THEN <<snaps, idx>>
    ELSE LET pushed == Evict(Append(SubSeq(snaps, 1, idx), snap))
         IN  <<pushed, Len(pushed)>>

\* Store a snapshot unless its content equals the current stored one.
\* Returns the new <<snapshots, currentIndex>>.
UndoSnapshots_addSnapshot(snaps, idx, snap) ==
    IF idx >= 1 /\ snaps[idx].html = snap.html
    THEN <<snaps, idx>>
    ELSE LET pushed == Evict(Append(SubSeq(snaps, 1, idx), snap))
         IN  <<pushed, Len(pushed)>>

UndoService_addUndoSnapshot(snaps, idx, c, s) ==
    UndoSnapshots_addSnapshot(snaps, idx, Snapshot(c, s))

\* A snapshot of content c is pushed and the stack goes over its budget.
UndoSnapshots_overflows(snaps, idx, c) ==
    /\ ~(idx >= 1 /\ snaps[idx].html = c)
    /\ idx + 1 > MaxSnapshots

UndoService_canUndo(snaps, idx) == idx > 1
UndoService_canRedo(snaps, idx) == idx < Len(snaps)

\* faulty variant: the recorded selection is used without resolving it
RestoreSelection_unchecked(snap, resolvable) == snap.sel

\* Selection kept by a snapshot, or the start of the content when the
\* kept selection cannot be resolved against the restored content.  The
\* content is kept as a number, not as a tree: whether the recorded selection
\* still resolves against the tree parsed from the snapshot is an input of
\* the restore.
RestoreSelection(snap, resolvable) ==
    IF resolvable /\ snap.sel \in Selections(snap.html) THEN snap.sel ELSE 0

UndoService_undo(snaps, idx) ==
    IF UndoService_canUndo(snaps, idx) THEN idx - 1 ELSE idx
UndoService_redo(snaps, idx) ==
    IF UndoService_canRedo(snaps, idx) THEN idx + 1 ELSE idx

\* ------------------------------------------------------------------ Init
\* op: "none", "running", "returned", "threw", "undo" (an undo right after a
\* returned call), "redo" (a redo right after that undo); c0, c1: the content
\* when the call was entered and when its callback ended; depth0, matches0:
\* the stack depth on entry and whether the current snapshot held c0;
\* single: a runWithUndo call inside which no other call found the flag clear;
\* nested: a call inside it found the flag set; evicted: a snapshot pushed
\* by it took the stack over its budget.
NoLast == [op |-> "none", c0 |-> 0, c1 |-> 0, depth0 |-> 0, matches0 |-> FALSE,
           single |-> FALSE, nested |-> FALSE, evicted |-> FALSE]

\* ------------------------------------------- runWithUndo (runWithUndo.ts)
\* JavaScript truthiness of a changeSource string
Truthy(v) == v \notin {Undefined, Null, ""}

\* Editor.runWithUndo: the default value of the changeSource parameter
Editor_runWithUndo_changeSource(arg) ==
    IF arg = Undefined THEN "Format" ELSE arg

\* line 10: let isNested = core.suspendUndo
RunWithUndo_isNested(flag) == flag

\* faulty variants of the guard: no guard at all, and the guard inverted
RunWithUndo_addsSnapshot_always(isNested) == TRUE
RunWithUndo_addsSnapshot_inverted(isNested) == isNested

\* lines 12 and 20: if (!isNested), the guard of both addUndoSnapshot calls
RunWithUndo_addsSnapshot(isNested) == ~isNested

\* lines 12-13 and 20-22: core.undo.addUndoSnapshot() under that guard
RunWithUndo_snapshot(isNested, snaps, idx, c, s) ==
    IF RunWithUndo_addsSnapshot(isNested)
    THEN UndoService_addUndoSnapshot(snaps, idx, c, s)
    ELSE <<snaps, idx>>

\* the log entry of an invocation of core.undo.addUndoSnapshot()
RunWithUndo_snapshotLog(isNested) ==
    IF RunWithUndo_addsSnapshot(isNested) THEN <<EvSnapshot(isNested)>> ELSE <<>>

\* lines 12-15: the flag after the entry
RunWithUndo_flagOnEntry(isNested, flag) ==
    IF ~isNested THEN TRUE ELSE flag

\* faulty variant: the event is fired by nested calls too
RunWithUndo_shouldNotify_anyDepth(isNested, changeSource) ==
    changeSource \notin {Undefined, Null, ""}

\* line 24: if (!isNested && changeSource)
RunWithUndo_shouldNotify(isNested, changeSource) ==
    ~isNested /\ Truthy(changeSource)

\* line 28: data: getDataCallback && getDataCallback()
RunWithUndo_eventData(getData) ==
    IF getData = Undefined THEN Undefined ELSE getData

\* faulty variants of the finally block: the flag is never cleared, and the
\* flag is cleared by nested calls too
RunWithUndo_finally_keeps(isNested, flag) == flag
RunWithUndo_finally_always(isNested, flag) == FALSE

\* lines 33-37: finally { if (!isNested) core.suspendUndo = false }
RunWithUndo_finally(isNested, flag) ==
    IF ~isNested THEN FALSE ELSE flag

\* lines 17-37: try/finally without a catch clause, the exception of the
\* callback leaves the call as it is
RunWithUndo_rethrown(e) == e

\* Editor.runWithoutAddingUndoSnapshot, lines 495-497: finally
RunWithoutAddingUndoSnapshot_finally(flag) == FALSE

\* faulty variant: the event is fired before the second snapshot is taken
RunWithUndo_afterCallback_notifyFirst(isNested, changeSource, getData) ==
    (IF RunWithUndo_shouldNotify(isNested, changeSource)
     THEN <<EvNotify(changeSource, RunWithUndo_eventData(getData))>>
     ELSE <<>>)
        \o RunWithUndo_snapshotLog(isNested)

\* lines 20-31: the steps after the callback has returned, in program order
RunWithUndo_afterCallback(isNested, changeSource, getData) ==
    RunWithUndo_snapshotLog(isNested)
        \o (IF RunWithUndo_shouldNotify(isNested, changeSource)
            THEN <<EvNotify(changeSource, RunWithUndo_eventData(getData))>>
            ELSE <<>>)

\* faulty variant: the second snapshot is taken in the finally block
RunWithUndo_afterThrow_snapshot(isNested, changeSource, getData) ==
    RunWithUndo_snapshotLog(isNested)

\* lines 19-33: the steps of the try block after a callback that threw: the
\* exception leaves the block at line 19, none of lines 20-31 runs
RunWithUndo_afterThrow(isNested, changeSource, getData) == <<>>

\* faulty variant: lines 20-31 run whether there is a callback or not
RunWithUndo_withoutCallback_runsOn(isNested, changeSource, getData) ==
    RunWithUndo_afterCallback(isNested, changeSource, getData)

\* line 18: if (callback); the steps of the try block without a callback
RunWithUndo_withoutCallback(isNested, changeSource, getData) == <<>>

\* faulty variant: the flag is cleared before the event is dispatched
RunWithUndo_flagDuringDispatch_cleared(isNested, flag) ==
    IF ~isNested THEN FALSE ELSE flag

\* lines 24-33: the flag while core.api.triggerEvent runs; it is written
\* only in the finally block
RunWithUndo_flagDuringDispatch(isNested, flag) == flag

\* entryFlag: the value of core.suspendUndo when the call was entered
Frame(kind, isNested, changeSource, getData, entryFlag) ==
    [kind |-> kind, isNested |-> isNested, changeSource |-> changeSource,
     getData |-> getData, pc |-> "callback", entryFlag |-> entryFlag]

Top == stack[Len(stack)]
Pop == SubSeq(stack, 1, Len(stack) - 1)
Depth == Len(stack)

\* the finally block of a frame
Finally(frame, flag) ==
    IF frame.kind = "runWithUndo"
    THEN RunWithUndo_finally(frame.isNested, flag)
    ELSE RunWithoutAddingUndoSnapshot_finally(flag)

\* bookkeeping when a top-level operation starts / ends
Started ==
    [op |-> "running", c0 |-> content, c1 |-> content,
     depth0 |-> Len(snapshots),
     matches0 |-> currentIndex >= 1 /\ snapshots[currentIndex].html = content,
     single |-> FALSE, nested |-> FALSE, evicted |-> FALSE]
\* a snapshot taken now by a call with this isNested overflows the stack
Overflows(isNested) ==
    /\ RunWithUndo_addsSnapshot(isNested)
    /\ UndoSnapshots_overflows(snapshots, currentIndex, content)
\* a top-level runWithUndo inside which no other call found the flag clear
Single(t) ==
    /\ t # <<>>
    /\ IsOutermostEnter(t[1])
    /\ Count(t, IsOutermostEnter) = 1
Ended(l, how, t) ==
    IF Depth = 1 THEN [l EXCEPT !.op = how, !.single = Single(t)] ELSE l
CallbackEnded(l) ==
    IF Depth = 1 /\ Top.pc = "callback" THEN [l EXCEPT !.c1 = content] ELSE l

\* Editor.runWithUndo(callback, changeSource, getDataCallback): the call up to
\* the start of the callback; the whole call when there is no callback.
RunWithUndoEnter(cb, csArg, getData) ==
    /\ exc = NoException
    /\ Depth < MaxDepth
    /\ stack # <<>> => Len(trace) < MaxTrace
    /\ LET changeSource == Editor_runWithUndo_changeSource(csArg)
           isNested == RunWithUndo_isNested(suspendUndo)
           first == RunWithUndo_snapshot(isNested, snapshots, currentIndex,
                                         content, selection)
           skipped == RunWithUndo_withoutCallback(isNested, changeSource, getData)
           added == IF cb = Undefined /\ \E i \in 1..Len(skipped) :
                                             IsSnapshot(skipped[i])
                    THEN RunWithUndo_snapshot(isNested, first[1], first[2],
                                              content, selection)
                    ELSE first
           flag == RunWithUndo_flagOnEntry(isNested, suspendUndo)
           t0 == IF stack = <<>> THEN <<>> ELSE trace
           d == Depth + 1
           l1 == IF stack = <<>> THEN Started
                 ELSE [last EXCEPT !.nested = @ \/ isNested]
           l0 == [l1 EXCEPT !.evicted = @ \/ Overflows(isNested)]
           enter == <<EvEnter(isNested, csArg, getData)>>
       IN  /\ snapshots' = added[1]
           /\ currentIndex' = added[2]
           /\ IF cb = Undefined
              THEN /\ suspendUndo' = RunWithUndo_finally(isNested, flag)
                   /\ stack' = stack
                   /\ trace' = t0 \o Log(d, enter
                                           \o RunWithUndo_snapshotLog(isNested)
                                           \o skipped
                                           \o <<EvExit("returned", "")>>)
                   /\ last' = IF stack = <<>>
                              THEN [l0 EXCEPT !.op = "returned",
                                              !.single = Single(trace')]
                              ELSE l0
              ELSE /\ suspendUndo' = flag
                   /\ stack' = Append(stack, Frame("runWithUndo", isNested,
                                                   changeSource, getData,
                                                   suspendUndo))
                   /\ trace' = t0 \o Log(d, enter
                                           \o RunWithUndo_snapshotLog(isNested)
                                           \o <<EvCallback>>)
                   /\ last' = l0
    /\ UNCHANGED <<content, selection, exc>>
    /\ UNCHANGED <<lifeVars, travVars, domVars>>

\* Editor.runWithoutAddingUndoSnapshot(callback), up to the start of the callback
RunWithoutAddingUndoSnapshotEnter ==
    /\ exc = NoException
    /\ Depth < MaxDepth
    /\ suspendUndo' = TRUE
    /\ stack' = Append(stack, Frame("runWithoutAddingUndoSnapshot", FALSE,
                                    Null, Undefined, suspendUndo))
    /\ trace' = IF stack = <<>> THEN <<EvDeprecated>> ELSE trace
    /\ last' = IF stack = <<>> THEN Started ELSE last
    /\ UNCHANGED <<content, selection, snapshots, currentIndex, exc>>
    /\ UNCHANGED <<lifeVars, travVars, domVars>>

\* The running callback (or event handler) changes the document.
CallbackMutate(c, s) ==
    /\ exc = NoException
    /\ stack # <<>>
    /\ s \in Selections(c)
    /\ <<c, s>> # <<content, selection>>
    /\ content' = c
    /\ selection' = s
    /\ UNCHANGED <<snapshots, currentIndex, suspendUndo, stack, exc, trace, last>>
    /\ UNCHANGED <<lifeVars, travVars, domVars>>

\* The callback returns: runWithUndo lines 20-31, then the finally block unless
\* the ContentChanged event is being dispatched.
CallbackReturn ==
    /\ exc = NoException
    /\ stack # <<>>
    /\ Top.pc = "callback"
    /\ LET f == Top
           isRwu == f.kind = "runWithUndo"
           added == IF isRwu
                    THEN RunWithUndo_snapshot(f.isNested, snapshots, currentIndex,
                                              content, selection)
                    ELSE <<snapshots, currentIndex>>
           after == IF isRwu
                    THEN RunWithUndo_afterCallback(f.isNested, f.changeSource,
                                                   f.getData)
                    ELSE <<>>
           notify == \E i \in 1..Len(after) : IsNotify(after[i])
           l0 == [last EXCEPT !.evicted = @ \/ (isRwu /\ Overflows(f.isNested))]
       IN  /\ snapshots' = added[1]
           /\ currentIndex' = added[2]
           /\ IF notify
              THEN /\ stack' = [stack EXCEPT ![Len(stack)].pc = "notify"]
                   /\ suspendUndo' = RunWithUndo_flagDuringDispatch(f.isNested,
                                                                    suspendUndo)
                   /\ trace' = trace \o Log(Depth, <<EvDone("returned", "")>>
                                                   \o after)
                   /\ last' = CallbackEnded(l0)
              ELSE /\ stack' = Pop
                   /\ suspendUndo' = Finally(f, suspendUndo)
                   /\ trace' = trace \o Log(Depth, <<EvDone("returned", "")>>
                                                   \o after
                                                   \o <<EvExit("returned", "")>>)
                   /\ last' = Ended(CallbackEnded(l0), "returned", trace')
    /\ UNCHANGED <<content, selection, exc>>
    /\ UNCHANGED <<lifeVars, travVars, domVars>>

\* triggerEvent returns: runWithUndo leaves through its finally block.
DispatchReturn ==
    /\ exc = NoException
    /\ stack # <<>>
    /\ Top.pc = "notify"
    /\ stack' = Pop
    /\ suspendUndo' = Finally(Top, suspendUndo)
    /\ trace' = trace \o Log(Depth, <<EvExit("returned", "")>>)
    /\ last' = Ended(last, "returned", trace')
    /\ UNCHANGED <<content, selection, snapshots, currentIndex, exc>>
    /\ UNCHANGED <<lifeVars, travVars, domVars>>

\* An exception leaves the frame on top of the stack through its finally block.
Unwind(e) ==
    LET f == Top
        after == IF f.kind = "runWithUndo" /\ f.pc = "callback"
                 THEN RunWithUndo_afterThrow(f.isNested, f.changeSource, f.getData)
                 ELSE <<>>
        added == IF \E i \in 1..Len(after) : IsSnapshot(after[i])
                 THEN RunWithUndo_snapshot(f.isNested, snapshots, currentIndex,
                                           content, selection)
                 ELSE <<snapshots, currentIndex>>
    IN  /\ stack' = Pop
        /\ suspendUndo' = Finally(f, suspendUndo)
        /\ exc' = RunWithUndo_rethrown(e)
        /\ snapshots' = added[1]
        /\ currentIndex' = added[2]
        /\ trace' = trace \o Log(Depth,
                         (IF f.pc = "callback" THEN <<EvDone("threw", e)>> ELSE <<>>)
                             \o after
                             \o <<EvExit("threw", RunWithUndo_rethrown(e))>>)
        /\ last' = Ended(CallbackEnded(last), "threw", trace')
        /\ UNCHANGED <<content, selection>>
        /\ UNCHANGED <<lifeVars, travVars, domVars>>

\* The running callback (or event handler) throws.
CallbackThrow(e) ==
    /\ exc = NoException
    /\ stack # <<>>
    /\ Unwind(e)

\* An exception thrown by a nested call is not caught by the calling callback.
Propagate ==
    /\ exc # NoException
    /\ stack # <<>>
    /\ Unwind(exc)

\* The calling callback catches the exception of a nested call.
CallbackCatch ==
    /\ exc # NoException
    /\ stack # <<>>
    /\ exc' = NoException
    /\ UNCHANGED <<content, selection, snapshots, currentIndex, suspendUndo,
                   stack, trace, last>>
    /\ UNCHANGED <<lifeVars, travVars, domVars>>

\* The caller of the top-level operation receives the exception.
CallerCatch ==
    /\ exc # NoException
    /\ stack = <<>>
    /\ exc' = NoException
    /\ UNCHANGED <<content, selection, snapshots, currentIndex, suspendUndo,
                   stack, trace, last>>
    /\ UNCHANGED <<lifeVars, travVars, domVars>>

\* -------------------------------------------------- Editor.ts, Undo API
\* faulty variant: canUndo asks the service for canRedo
Editor_canUndo_swapped == UndoService_canRedo(snapshots, currentIndex)

Editor_canUndo == UndoService_canUndo(snapshots, currentIndex)
Editor_canRedo == UndoService_canRedo(snapshots, currentIndex)

\* the pointer moves to index i: content and selection come from entry i
Restore(i, resolvable) ==
    /\ currentIndex' = i
    /\ IF i # currentIndex
       THEN /\ content' = snapshots[i].html
            /\ selection' = RestoreSelection(snapshots[i], resolvable)
       ELSE UNCHANGED <<content, selection>>

Chain(from, to) ==
    IF last.op = from
    THEN [NoLast EXCEPT !.op = to, !.c0 = last.c0, !.c1 = last.c1,
                        !.single = last.single]
    ELSE NoLast

\* Editor.undo(), the recorded selection resolvable or not
UndoTo(resolvable) ==
    /\ exc = NoException
    /\ stack = <<>>
    /\ Restore(UndoService_undo(snapshots, currentIndex), resolvable)
    /\ last' = Chain("returned", "undo")
    /\ trace' = <<>>
    /\ UNCHANGED <<snapshots, suspendUndo, stack, exc>>
    /\ UNCHANGED <<lifeVars, travVars, domVars>>

Undo == \E resolvable \in BOOLEAN : UndoTo(resolvable)

\* Editor.redo(), the recorded selection resolvable or not
RedoTo(resolvable) ==
    /\ exc = NoException
    /\ stack = <<>>
    /\ Restore(UndoService_redo(snapshots, currentIndex), resolvable)
    /\ last' = Chain("undo", "redo")
    /\ trace' = <<>>
    /\ UNCHANGED <<snapshots, suspendUndo, stack, exc>>
    /\ UNCHANGED <<lifeVars, travVars, domVars>>

Redo == \E resolvable \in BOOLEAN : RedoTo(resolvable)

\* Editor.addUndoSnapshot() (deprecated), called from the top level or by a
\* running callback or event handler: a snapshot unless the flag is set
AddUndoSnapshot ==
    /\ exc = NoException
    /\ stack # <<>> => Len(trace) < MaxTrace
    /\ LET added == RunWithUndo_snapshot(suspendUndo, snapshots, currentIndex,
                                         content, selection)
       IN  /\ snapshots' = added[1]
           /\ currentIndex' = added[2]
           /\ trace' = IF stack = <<>> THEN <<>>
                       ELSE trace \o RunWithUndo_snapshotLog(suspendUndo)
           /\ last' = IF stack = <<>> THEN NoLast
                      ELSE [last EXCEPT !.evicted = @ \/ Overflows(suspendUndo)]
    /\ UNCHANGED <<content, selection, suspendUndo, stack, exc>>
    /\ UNCHANGED <<lifeVars, travVars, domVars>>

\* Editor.setContent(content): replaces the content, no snapshot is taken
SetContent(c) ==
    /\ exc = NoException
    /\ stack = <<>>
    /\ c # content
    /\ content' = c
    /\ selection' = 0
    /\ last' = NoLast
    /\ trace' = <<>>
    /\ UNCHANGED <<snapshots, currentIndex, suspendUndo, stack, exc>>
    /\ UNCHANGED <<lifeVars, travVars, domVars>>

\* --------------------------------------- Editor lifecycle (Editor.ts)
\* createEventHandlers attaches ten DOM event handlers
NumDomEvents == 10
DomEvents == 1..NumDomEvents
Tags == {"DIV", "SPAN"}
\* options.initialContent given, or markup already in the container, or neither
InitialContents == {"option", "markup", "empty"}
\* options.idleEventTimeSpanInSecond
IdleSpans == {0, 1}

\* what a lifecycle operation did: the steps it took in order, the error it
\* threw, its argument, and whether it found the editor disposed
Did(op, arg, steps, err, disposed) ==
    [op |-> op, arg |-> arg, steps |-> steps, err |-> err, disposed |-> disposed]
NothingDone == Did("none", "", <<>>, NoException, FALSE)

\* Editor.isDisposed
Editor_isDisposed(c) == c \in {Undefined, Null}

\* faulty variant: any container is accepted
Constructor_valid_any(tag) == TRUE

\* constructor, line 53: getTagOfNode(contentDiv) != 'DIV' throws
Constructor_valid(tag) == tag = "DIV"

\* faulty variant: the undo service is initialized with the other plugins,
\* before the initial content is in place
Constructor_steps_undoWithPlugins(n, initial, omit, idle) ==
    <<"createEditorCore">>
        \o [i \in 1..n |-> "plugin.initialize"]
        \o <<"undo.initialize", "plugins.push(undo)">>
        \o (IF initial = "option" THEN <<"setContent">>
            ELSE IF initial = "markup" THEN <<"ContentChanged">> ELSE <<>>)
        \o <<"ensureInitialContent", "createEventHandlers">>
        \o (IF omit THEN <<>> ELSE <<"contenteditable">>)
        \o (IF idle > 0 THEN <<"startIdleLoop">> ELSE <<>>)
        \o <<"EditorReady">>

\* constructor, steps 2 to 10 in program order
Constructor_steps(n, initial, omit, idle) ==
    <<"createEditorCore">>
        \o [i \in 1..n |-> "plugin.initialize"]
        \o (IF initial = "option" THEN <<"setContent">>
            ELSE IF initial = "markup" THEN <<"ContentChanged">> ELSE <<>>)
        \o <<"ensureInitialContent", "undo.initialize", "plugins.push(undo)",
             "createEventHandlers">>
        \o (IF omit THEN <<>> ELSE <<"contenteditable">>)
        \o (IF idle > 0 THEN <<"startIdleLoop">> ELSE <<>>)
        \o <<"EditorReady">>

\* new Editor(contentDiv, options)
Construct(tag, n, initial, omit, idle) ==
    /\ core = Undefined
    /\ IF ~Constructor_valid(tag)
       THEN /\ lifeLast' = Did("construct", tag, <<>>, "Error", FALSE)
            /\ UNCHANGED <<core, plugins, eventDisposers, attached, customData,
                           idleLoopHandle, timerActive, ignoreIdleEvent,
                           editable, omitContentEditable>>
       ELSE /\ core' = "core"
            /\ plugins' = [i \in 1..(n + 1) |-> "initialized"]
            /\ eventDisposers' = "array"
            /\ attached' = DomEvents
            /\ customData' = <<>>
            /\ idleLoopHandle' = IF idle > 0 THEN 1 ELSE 0
            /\ timerActive' = (idle > 0)
            /\ ignoreIdleEvent' = FALSE
            /\ omitContentEditable' = omit
            /\ editable' = IF omit THEN editable ELSE TRUE
            /\ lifeLast' = Did("construct", tag,
                               Constructor_steps(n, initial, omit, idle),
                               NoException, FALSE)
    /\ UNCHANGED frames
    /\ UNCHANGED <<undoVars, travVars, domVars>>

\* Editor.getCustomData(key, getter, disposer): the entry is created on first
\* use; the disposer argument is not handed to the core API (line 544)
Editor_getCustomData_disposer(disposer) == Undefined

GetCustomData(key, disposer) ==
    /\ core = "core"
    /\ Len(customData) < MaxData
    /\ \A i \in 1..Len(customData) : customData[i].key # key
    /\ customData' = Append(customData,
                            [key |-> key,
                             disposer |-> Editor_getCustomData_disposer(disposer)])
    /\ lifeLast' = Did("getCustomData", "", <<>>, NoException, FALSE)
    /\ UNCHANGED <<core, plugins, eventDisposers, attached, idleLoopHandle,
                   timerActive, ignoreIdleEvent, editable, omitContentEditable,
                   frames>>
    /\ UNCHANGED <<undoVars, travVars, domVars>>

\* The first disposer that throws during dispose(): none, a handler of the
\* BeforeDispose event, the dispose() of plugin i, the disposer of DOM event
\* i, or the disposer of custom data entry i.
Thrower(at, i) == [at |-> at, i |-> i]
Throwers ==
    {Thrower("none", 0), Thrower("handler", 0)}
        \cup {Thrower("plugin", i) : i \in 1..Len(plugins)}
        \cup {Thrower("event", i) : i \in DomEvents}
        \cup {Thrower("data", i) :
                 i \in {j \in 1..Len(customData) :
                            customData[j].disposer # Undefined}}

\* the statement of dispose() a thrower stops it at: 1 triggerEvent (118),
\* 3 plugins (131), 4 eventDisposers (135), 5 customData (138); 8 when nothing
\* throws.  No statement of dispose() is inside a try block.
Dispose_stoppedAt(thrower) ==
    CASE thrower.at = "handler" -> 1
      [] thrower.at = "plugin" -> 3
      [] thrower.at = "event" -> 4
      [] thrower.at = "data" -> 5
      [] OTHER -> 8

\* the steps of dispose() the later checks look at
Dispose_steps(at, handle) ==
    <<"BeforeDispose">>
        \o (IF at > 2 /\ handle > 0 THEN <<"clearInterval">> ELSE <<>>)
        \o (IF at > 7 THEN <<"core = null">> ELSE <<>>)

\* faulty variant: the interval is left armed
Dispose_clearsTimer_never(handle, active) == active

\* lines 125-129: if (idleLoopHandle > 0) clearInterval(idleLoopHandle)
Dispose_clearsTimer(handle, active) == IF handle > 0 THEN FALSE ELSE active
Dispose_idleLoopHandle(handle) == IF handle > 0 THEN 0 ELSE handle

\* Editor.dispose()
Dispose(thrower) ==
    /\ core = "core"
    /\ thrower \in Throwers
    /\ LET at == Dispose_stoppedAt(thrower)
       IN  /\ timerActive' = IF at > 2
                             THEN Dispose_clearsTimer(idleLoopHandle, timerActive)
                             ELSE timerActive
           /\ idleLoopHandle' = IF at > 2
                                THEN Dispose_idleLoopHandle(idleLoopHandle)
                                ELSE idleLoopHandle
           /\ plugins' = [i \in 1..Len(plugins) |->
                             IF at > 3 \/ (at = 3 /\ i < thrower.i)
                             THEN "disposed" ELSE plugins[i]]
           /\ attached' = IF at > 4 THEN {}
                          ELSE IF at = 4 THEN attached \ (1..(thrower.i - 1))
                          ELSE attached
           /\ eventDisposers' = IF at > 4 THEN Null ELSE eventDisposers
           /\ customData' = IF at > 5 THEN <<>>
                            ELSE IF at = 5
                            THEN SubSeq(customData, thrower.i, Len(customData))
                            ELSE customData
           /\ editable' = IF at > 6 /\ ~omitContentEditable THEN FALSE
                          ELSE editable
           /\ core' = IF at > 7 THEN Null ELSE core
           /\ lifeLast' = Did("dispose", thrower.at,
                              Dispose_steps(at, idleLoopHandle),
                              IF thrower.at = "none" THEN NoException
                              ELSE "DisposerError",
                              FALSE)
    /\ UNCHANGED <<ignoreIdleEvent, omitContentEditable, frames>>
    /\ UNCHANGED <<undoVars, travVars, domVars>>

\* faulty variant: the tick does not reset the flag
StartIdleLoop_ignoreIdleEvent_kept(ignore) == ignore

\* lines 764-765: if (ignoreIdleEvent) ignoreIdleEvent = false
StartIdleLoop_ignoreIdleEvent(ignore) == IF ignore THEN FALSE ELSE ignore
\* lines 764-773: the Idle event is fired in the else branch
StartIdleLoop_fires(ignore) == ~ignore

\* One tick of the interval timer started by startIdleLoop (lines 763-775).
IdleTick ==
    /\ timerActive
    /\ IF core # "core"
       THEN /\ lifeLast' = Did("tick", "", <<>>, "TypeError", TRUE)
            /\ UNCHANGED ignoreIdleEvent
       ELSE /\ ignoreIdleEvent' = StartIdleLoop_ignoreIdleEvent(ignoreIdleEvent)
            /\ lifeLast' = Did("tick", "",
                               IF StartIdleLoop_fires(ignoreIdleEvent)
                               THEN <<"Idle">> ELSE <<>>,
                               NoException, FALSE)
    /\ UNCHANGED <<core, plugins, eventDisposers, attached, customData,
                   idleLoopHandle, timerActive, editable, omitContentEditable,
                   frames>>
    /\ UNCHANGED <<undoVars, travVars, domVars>>

\* The core sets core.ignoreIdleEvent = true.
SetIgnoreIdleEvent ==
    /\ core = "core"
    /\ ignoreIdleEvent' = TRUE
    /\ lifeLast' = Did("ignoreIdleEvent", "", <<>>, NoException, FALSE)
    /\ UNCHANGED <<core, plugins, eventDisposers, attached, customData,
                   idleLoopHandle, timerActive, editable, omitContentEditable,
                   frames>>
    /\ UNCHANGED <<undoVars, travVars, domVars>>

\* faulty variant: the frame does not look at isDisposed()
RunAsync_invokes_unguarded(disposed, callback) == callback # Undefined

\* line 588: if (!this.isDisposed() && callback)
RunAsync_invokes(disposed, callback) == ~disposed /\ callback # Undefined

\* Editor.runAsync(callback): requestAnimationFrame is asked for one frame;
\* line 586 reads this.core.contentDiv
RunAsync(callback) ==
    /\ core # Undefined
    /\ Len(frames) < MaxFrames
    /\ IF Editor_isDisposed(core)
       THEN /\ lifeLast' = Did("runAsync", callback, <<>>, "TypeError", TRUE)
            /\ UNCHANGED frames
       ELSE /\ frames' = Append(frames, callback)
            /\ lifeLast' = Did("runAsync", callback, <<>>, NoException, FALSE)
    /\ UNCHANGED <<core, plugins, eventDisposers, attached, customData,
                   idleLoopHandle, timerActive, ignoreIdleEvent, editable,
                   omitContentEditable>>
    /\ UNCHANGED <<undoVars, travVars, domVars>>

\* The animation frame of the i-th waiting callback fires (lines 587-591);
\* a frame fires once.
FrameFire(i) ==
    /\ i \in 1..Len(frames)
    /\ frames' = SubSeq(frames, 1, i - 1) \o SubSeq(frames, i + 1, Len(frames))
    /\ LET disposed == Editor_isDisposed(core)
       IN  lifeLast' = Did("frame", frames[i],
                           IF RunAsync_invokes(disposed, frames[i])
                           THEN <<"callback">> ELSE <<>>,
                           NoException, disposed)
    /\ UNCHANGED <<core, plugins, eventDisposers, attached, customData,
                   idleLoopHandle, timerActive, ignoreIdleEvent, editable,
                   omitContentEditable>>
    /\ UNCHANGED <<undoVars, travVars, domVars>>

\* ------------------------------------------- scopers and ContentTraverser
\* The document is a sequence of blocks; block b holds doc[b] inline runs.
\* An inline element is a run of a block; `trimmed` tells that it came out
\* of the scoper's trimInlineElement.
Docs == UNION {[1..n -> 1..MaxRuns] : n \in 1..MaxBlocks}
Element(kind, block, run, trimmed) ==
    [kind |-> kind, block |-> block, run |-> run, trimmed |-> trimmed]
None == Element("none", 0, 0, FALSE)
Block(b) == Element("block", b, 0, FALSE)
Inline(b, r) == Element("inline", b, r, FALSE)
Trimmed(el) == [el EXCEPT !.trimmed = TRUE]

\* the runs of document d, as <<block, run>> pairs, and their document order
Runs(d) == {p \in (1..Len(d)) \X (1..MaxRuns) : p[2] <= d[p[1]]}
NotAfter(p, q) == p[1] < q[1] \/ (p[1] = q[1] /\ p[2] <= q[2])

\* A scoper: Body; Block, anchored at the run `from` with a start position;
\* Selection, over the runs from `from` to `to`.
Scoper(kind, position, from, to) ==
    [kind |-> kind, position |-> position, from |-> from, to |-> to]
ContentPositions == {"Begin", "End", "SelectionStart"}
Scopers(d) ==
    {Scoper("Body", "Begin", <<1, 1>>, <<1, 1>>)}
        \cup {Scoper("Block", pos, p, p) : pos \in ContentPositions, p \in Runs(d)}
        \cup {Scoper("Selection", "SelectionStart", range[1], range[2]) :
                 range \in {x \in Runs(d) \X Runs(d) : NotAfter(x[1], x[2])}}

\* BodyScoper.isBlockInScope (BodyScoper.ts 20-22): the block is under the
\* root; BlockScoper: the block is the start block; SelectionScoper: the
\* block overlaps the range
Scoper_isBlockInScope(sc, d, b) ==
    CASE sc.kind = "Body" -> b \in 1..Len(d)
      [] sc.kind = "Block" -> b = sc.from[1]
      [] OTHER -> b \in sc.from[1]..sc.to[1]

\* BodyScoper.trimInlineElement (BodyScoper.ts 25-27): the element itself;
\* BlockScoper: the element if it lies in the start block, else none;
\* SelectionScoper: the part of the element inside the range, else none
Scoper_trimInlineElement(sc, el) ==
    CASE sc.kind = "Body" -> Trimmed(el)
      [] sc.kind = "Block" ->
             IF el.block = sc.from[1] THEN Trimmed(el) ELSE None
      [] OTHER ->
             IF /\ NotAfter(sc.from, <<el.block, el.run>>)
                /\ NotAfter(<<el.block, el.run>>, sc.to)
             THEN Trimmed(el) ELSE None

Scoper_getStartBlockElement(sc) ==
    IF sc.kind = "Body" THEN Block(1) ELSE Block(sc.from[1])

Scoper_getStartInlineElement(sc, d) ==
    CASE sc.kind = "Body" -> Inline(1, 1)
      [] sc.kind = "Block" /\ sc.position = "Begin" -> Inline(sc.from[1], 1)
      [] sc.kind = "Block" /\ sc.position = "End" ->
             Inline(sc.from[1], d[sc.from[1]])
      [] OTHER -> Inline(sc.from[1], sc.from[2])

\* a block-bounded scoper does not let the inline cursor cross blocks
Scoper_isBlockBounded(sc) == sc.kind = "Block"

\* the cursor: no element fetched yet, or the current block and inline element
NewTraverser == [built |-> TRUE, block |-> None, inline |-> None]
\* before getContentTraverser is called
NotBuilt == [built |-> FALSE, block |-> None, inline |-> None]
NoScoper == Scoper("none", "Begin", <<1, 1>>, <<1, 1>>)
Traverser_currentBlock(t, sc) ==
    IF t.block = None THEN Scoper_getStartBlockElement(sc) ELSE t.block
Traverser_currentInline(t, sc, d) ==
    IF t.inline = None THEN Scoper_getStartInlineElement(sc, d) ELSE t.inline

\* faulty variant: the block iterator wraps around at the ends
AdjacentBlock_wraps(d, b, dir) ==
    IF b + dir > Len(d) THEN Block(1)
    ELSE IF b + dir < 1 THEN Block(Len(d))
    ELSE Block(b + dir)

\* the block next to block b in direction dir (1 forward, -1 backward)
AdjacentBlock(d, b, dir) ==
    IF b + dir \in 1..Len(d) THEN Block(b + dir) ELSE None

\* faulty variant: the scoper is not asked
Traverser_stepBlock_unscoped(t, sc, d, dir) ==
    LET cur == Traverser_currentBlock(t, sc)
        cand == AdjacentBlock(d, cur.block, dir)
    IN  IF cand # None
        THEN <<[t EXCEPT !.block = cand], cand>>
        ELSE <<[t EXCEPT !.block = cur], None>>

\* nextBlock / previousBlock: <<cursor after the call, element returned>>
Traverser_stepBlock(t, sc, d, dir) ==
    LET cur == Traverser_currentBlock(t, sc)
        cand == AdjacentBlock(d, cur.block, dir)
    IN  IF cand # None /\ Scoper_isBlockInScope(sc, d, cand.block)
        THEN <<[t EXCEPT !.block = cand], cand>>
        ELSE <<[t EXCEPT !.block = cur], None>>

\* the candidate after inline element el in direction dir: the adjacent run
\* of its block, or the first (last) run of the adjacent in-scope block
\* unless the scoper is block-bounded
AdjacentInline(sc, d, el, dir) ==
    IF el.run + dir \in 1..d[el.block]
    THEN Inline(el.block, el.run + dir)
    ELSE IF Scoper_isBlockBounded(sc) THEN None
    ELSE LET b == AdjacentBlock(d, el.block, dir)
         IN  IF b # None /\ Scoper_isBlockInScope(sc, d, b.block)
             THEN Inline(b.block, IF dir = 1 THEN 1 ELSE d[b.block])
             ELSE None

\* the first candidate from el on, in direction dir, that the scoper does not
\* trim to none, trimmed
RECURSIVE Traverser_seekInline(_, _, _, _)
Traverser_seekInline(sc, d, el, dir) ==
    LET cand == AdjacentInline(sc, d, el, dir)
    IN  IF cand = None THEN None
        ELSE IF Scoper_trimInlineElement(sc, cand) # None
        THEN Scoper_trimInlineElement(sc, cand)
        ELSE Traverser_seekInline(sc, d, cand, dir)

\* faulty variant: the first candidate is returned as it is
Traverser_stepInline_noSkip(t, sc, d, dir) ==
    LET cur == Traverser_currentInline(t, sc, d)
        found == AdjacentInline(sc, d, cur, dir)
    IN  IF found # None
        THEN <<[t EXCEPT !.inline = found], found>>
        ELSE <<[t EXCEPT !.inline = cur], None>>

\* nextInline / previousInline: <<cursor after the call, element returned>>
Traverser_stepInline(t, sc, d, dir) ==
    LET cur == Traverser_currentInline(t, sc, d)
        found == Traverser_seekInline(sc, d, cur, dir)
    IN  IF found # None
        THEN <<[t EXCEPT !.inline = found], found>>
        ELSE <<[t EXCEPT !.inline = cur], None>>

Call(op, value) == [op |-> op, value |-> value]

\* Editor.getContentTraverser(scope, position), the selection given by the
\* scoper's range
GetContentTraverser(sc) ==
    /\ ~traverser.built
    /\ sc \in Scopers(doc)
    /\ scoper' = sc
    /\ traverser' = NewTraverser
    /\ visited' = <<>>
    /\ UNCHANGED doc
    /\ UNCHANGED <<undoVars, lifeVars, domVars>>

Step(op, stepped) ==
    /\ traverser.built
    /\ Len(visited) < MaxSteps
    /\ traverser' = stepped[1]
    /\ visited' = Append(visited, Call(op, stepped[2]))
    /\ UNCHANGED <<doc, scoper>>
    /\ UNCHANGED <<undoVars, lifeVars, domVars>>

NextBlock == Step("nextBlock", Traverser_stepBlock(traverser, scoper, doc, 1))
PreviousBlock ==
    Step("previousBlock", Traverser_stepBlock(traverser, scoper, doc, -1))
NextInline == Step("nextInline", Traverser_stepInline(traverser, scoper, doc, 1))
PreviousInline ==
    Step("previousInline", Traverser_stepInline(traverser, scoper, doc, -1))


\* ----------------------------------------------------------- the DOM tree
\* The page holds the content div and MaxNodes further nodes.  A node that
\* no chain of parents links to the content div is outside the editor.
ContentDiv == 0
NoNode == 0 - 1
Nodes == 1..MaxNodes
NodeNames == {"P", "SPAN", "#text", "BR"}
\* external classifier: the block-level tags
IsBlockLevel(name) == name = "P"
IsLeaf(name) == name \in {"#text", "BR"}

Without(s, n) == SelectSeq(s, LAMBDA x : x # n)
Members(s) == {s[i] : i \in DOMAIN s}
RECURSIVE Ascending(_)
Ascending(S) ==
    IF S = {} THEN <<>>
    ELSE LET m == CHOOSE x \in S : \A y \in S : x <= y
         IN  <<m>> \o Ascending(S \ {m})

\* node.parentNode
ParentNode(cn, n) ==
    IF \E p \in DOMAIN cn : n \in Members(cn[p])
    THEN CHOOSE p \in DOMAIN cn : n \in Members(cn[p])
    ELSE NoNode
\* Node.contains: a is n or an ancestor of n
RECURSIVE Node_contains(_, _, _)
Node_contains(cn, a, n) ==
    \/ n = a
    \/ /\ n \in Nodes
       /\ ParentNode(cn, n) # NoNode
       /\ Node_contains(cn, a, ParentNode(cn, n))
\* contains(container, contained) of roosterjs-editor-dom: the node falls in
\* the container
Contains(cn, container, n) ==
    n # NoNode /\ n # container /\ Node_contains(cn, container, n)
\* Editor.contains
Editor_contains(cn, n) == Contains(cn, ContentDiv, n)

\* the trees a page starts with: every node is a child of an earlier node or
\* of the content div, or has no parent; leaves have no children; a
\* block-level node sits under the content div or a block-level node
TreeOf(parent) ==
    [p \in {ContentDiv} \cup Nodes |-> Ascending({n \in Nodes : parent[n] = p})]
WellFormed(parent, names) ==
    \A n \in Nodes :
        /\ parent[n] < n
        /\ parent[n] \in Nodes => ~IsLeaf(names[parent[n]])
        /\ (IsBlockLevel(names[n]) /\ parent[n] \in Nodes)
               => IsBlockLevel(names[parent[n]])
Pages ==
    {pg \in [Nodes -> {NoNode, ContentDiv} \cup Nodes] \X [Nodes -> NodeNames] :
        WellFormed(pg[1], pg[2])}

\* parent.removeChild(n)
RemoveChild(cn, n) == [p \in DOMAIN cn |-> Without(cn[p], n)]
\* parent.replaceChild(toNode, existing), toNode not an ancestor of existing:
\* toNode leaves the place it had and takes the place of existing
ReplaceChild(cn, toNode, existing) ==
    IF toNode = existing THEN cn
    ELSE [p \in DOMAIN cn |->
             LET s == Without(cn[p], toNode)
             IN  [i \in DOMAIN s |-> IF s[i] = existing THEN toNode ELSE s[i]]]

Answer(op, args, value, error) ==
    [op |-> op, args |-> args, value |-> value, error |-> error]
NoAnswer == Answer("none", <<>>, FALSE, NoException)

\* faulty variant: the node is only tested for null
Editor_deleteNode_allowed_any(cn, node) == node # NoNode

\* Editor.deleteNode, line 188: node && this.contains(node)
Editor_deleteNode_allowed(cn, node) == node # NoNode /\ Editor_contains(cn, node)

\* Editor.deleteNode(node) (Editor.ts 186-194)
DeleteNode(node) ==
    /\ IF Editor_deleteNode_allowed(childNodes, node)
       THEN IF ParentNode(childNodes, node) = NoNode
            THEN /\ answer' = Answer("deleteNode", <<node>>, FALSE, "TypeError")
                 /\ UNCHANGED childNodes
            ELSE /\ childNodes' = RemoveChild(childNodes, node)
                 /\ answer' = Answer("deleteNode", <<node>>, TRUE, NoException)
       ELSE /\ answer' = Answer("deleteNode", <<node>>, FALSE, NoException)
            /\ UNCHANGED childNodes
    /\ UNCHANGED <<nodeName, nodeData, selectionRange, instance, created>>
    /\ UNCHANGED <<undoVars, lifeVars, travVars, focusVars>>

\* Editor.replaceNode, line 204
Editor_replaceNode_allowed(cn, existingNode, toNode) ==
    existingNode # NoNode /\ toNode # NoNode /\ Editor_contains(cn, existingNode)

\* Editor.replaceNode(existingNode, toNode) (Editor.ts 202-210); replaceChild
\* raises HierarchyRequestError when toNode holds the parent
ReplaceNode(existingNode, toNode) ==
    /\ IF Editor_replaceNode_allowed(childNodes, existingNode, toNode)
       THEN IF Node_contains(childNodes, toNode,
                             ParentNode(childNodes, existingNode))
            THEN /\ answer' = Answer("replaceNode", <<existingNode, toNode>>,
                                     FALSE, "HierarchyRequestError")
                 /\ UNCHANGED childNodes
            ELSE /\ childNodes' = ReplaceChild(childNodes, toNode, existingNode)
                 /\ answer' = Answer("replaceNode", <<existingNode, toNode>>,
                                     TRUE, NoException)
       ELSE /\ answer' = Answer("replaceNode", <<existingNode, toNode>>,
                                FALSE, NoException)
            /\ UNCHANGED childNodes
    /\ UNCHANGED <<nodeName, nodeData, selectionRange, instance, created>>
    /\ UNCHANGED <<undoVars, lifeVars, travVars, focusVars>>

\* a selection range of the host, and no selection
Range(sc, so, ec, eo) ==
    [exists |-> TRUE, startContainer |-> sc, startOffset |-> so,
     endContainer |-> ec, endOffset |-> eo]
NoRange ==
    [exists |-> FALSE, startContainer |-> NoNode, startOffset |-> 0,
     endContainer |-> NoNode, endOffset |-> 0]

\* --------------------------------------------- Position and SelectionRange
\* node.childNodes.length, or the length of the text
MaxOffsetOfNode(cn, len, n) ==
    IF n \in Nodes /\ len[n] > 0 THEN len[n] ELSE Len(cn[n])
\* a Position: (node, offset), the offset within the node
Position(node, offset) == [node |-> node, offset |-> offset]
NoPosition == Position(NoNode, 0)
\* the Positions in the editor
Positions(cn, len) ==
    {pos \in [node : DOMAIN cn, offset : 0..MaxText + MaxNodes] :
        /\ Node_contains(cn, ContentDiv, pos.node)
        /\ pos.offset <= MaxOffsetOfNode(cn, len, pos.node)}

\* the nodes under n, n first, in tree order
RECURSIVE PreorderAll(_, _)
Preorder(cn, n) == <<n>> \o PreorderAll(cn, cn[n])
PreorderAll(cn, kids) ==
    IF kids = <<>> THEN <<>>
    ELSE Preorder(cn, Head(kids)) \o PreorderAll(cn, Tail(kids))
IndexIn(s, x) == CHOOSE i \in DOMAIN s : s[i] = x
\* the child of a that is or holds b
ChildToward(cn, a, b) == CHOOSE c \in Members(cn[a]) : Node_contains(cn, c, b)
\* boundary points of the DOM: -1 when p is before q, 0 when they are equal,
\* 1 when p is after q
ComparePoints(cn, p, q) ==
    IF p.node = q.node
    THEN IF p.offset < q.offset THEN 0 - 1
         ELSE IF p.offset = q.offset THEN 0 ELSE 1
    ELSE IF Node_contains(cn, p.node, q.node)
    THEN IF IndexIn(cn[p.node], ChildToward(cn, p.node, q.node)) - 1 < p.offset
         THEN 1 ELSE 0 - 1
    ELSE IF Node_contains(cn, q.node, p.node)
    THEN IF IndexIn(cn[q.node], ChildToward(cn, q.node, p.node)) - 1 < q.offset
         THEN 0 - 1 ELSE 1
    ELSE IF IndexIn(Preorder(cn, ContentDiv), p.node)
               < IndexIn(Preorder(cn, ContentDiv), q.node)
    THEN 0 - 1 ELSE 1

\* Range.setStart / Range.setEnd of the DOM: a start put after the end pulls
\* the end along, an end put before the start pulls the start along
Range_setStart(cn, r, p) ==
    IF ComparePoints(cn, p, Position(r.endContainer, r.endOffset)) = 1
    THEN Range(p.node, p.offset, p.node, p.offset)
    ELSE Range(p.node, p.offset, r.endContainer, r.endOffset)
Range_setEnd(cn, r, p) ==
    IF ComparePoints(cn, p, Position(r.startContainer, r.startOffset)) = 0 - 1
    THEN Range(p.node, p.offset, p.node, p.offset)
    ELSE Range(r.startContainer, r.startOffset, p.node, p.offset)
\* document.createRange(): collapsed at the start of the document
Document_createRange == Range(ContentDiv, 0, ContentDiv, 0)
\* the ranges a caller can hold: the DOM keeps the start before the end
NativeRanges(cn, len) ==
    {Range(pq[1].node, pq[1].offset, pq[2].node, pq[2].offset) :
        pq \in {x \in Positions(cn, len) \X Positions(cn, len) :
                   ComparePoints(cn, x[1], x[2]) # 1}}

\* a native range object: its identity and where it points
Native(id, range) == [id |-> id, range |-> range]
NoNative == Native(0 - 1, NoRange)
\* the range object the caller handed to the constructor
CallerRange == 0

\* faulty variant: only the nodes are compared
SelectionRange_collapsed_sameNode(start, end) == start.node = end.node

\* SelectionRange constructor, line 50
SelectionRange_collapsed(start, end) ==
    start.node = end.node /\ start.offset = end.offset

\* a SelectionRange object; `given` is the range its constructor was handed,
\* `returned` lists what its getRange() calls returned
SelectionRange(start, end, rawRange) ==
    [built |-> TRUE, start |-> start, end |-> end,
     collapsed |-> SelectionRange_collapsed(start, end),
     rawRange |-> rawRange, given |-> rawRange, returned |-> <<>>]
NoInstance ==
    [built |-> FALSE, start |-> NoPosition, end |-> NoPosition,
     collapsed |-> FALSE, rawRange |-> NoNative, given |-> NoNative,
     returned |-> <<>>]

\* new SelectionRange(rawRange) (formatTable.ts 42-45)
NewSelectionRange_fromRange(raw) ==
    /\ ~instance.built
    /\ instance' = SelectionRange(Position(raw.startContainer, raw.startOffset),
                                  Position(raw.endContainer, raw.endOffset),
                                  Native(CallerRange, raw))
    /\ created' = 0
    /\ answer' = Answer("new SelectionRange(rawRange)", <<raw>>, TRUE, NoException)
    /\ UNCHANGED <<childNodes, nodeName, nodeData, selectionRange>>
    /\ UNCHANGED <<undoVars, lifeVars, travVars, focusVars>>

\* new SelectionRange(start, end) (formatTable.ts 46-50); end may be omitted
NewSelectionRange(start, end) ==
    /\ ~instance.built
    /\ instance' = SelectionRange(start, IF end # NoPosition THEN end ELSE start,
                                  NoNative)
    /\ created' = 0
    /\ answer' = Answer("new SelectionRange(start, end)", <<start, end>>, TRUE,
                        NoException)
    /\ UNCHANGED <<childNodes, nodeName, nodeData, selectionRange>>
    /\ UNCHANGED <<undoVars, lifeVars, travVars, focusVars>>

\* faulty variant: the range is built on every call
SelectionRange_needsRange_always(rawRange) == TRUE

\* SelectionRange.getRange, line 54: !this.rawRange
SelectionRange_needsRange(rawRange) == rawRange = NoNative

\* SelectionRange.getRange() (formatTable.ts 53-61)
GetRange ==
    /\ instance.built
    /\ Len(instance.returned) < MaxCalls
    /\ LET build == SelectionRange_needsRange(instance.rawRange)
           fresh == Range_setEnd(childNodes,
                        Range_setStart(childNodes, Document_createRange,
                                       instance.start),
                        instance.end)
           raw == IF build THEN Native(created + 1, fresh) ELSE instance.rawRange
       IN  /\ created' = IF build THEN created + 1 ELSE created
           /\ instance' = [instance EXCEPT !.rawRange = raw,
                                           !.returned = Append(@, raw)]
           /\ answer' = Answer("getRange", <<>>, TRUE, NoException)
    /\ UNCHANGED <<childNodes, nodeName, nodeData, selectionRange>>
    /\ UNCHANGED <<undoVars, lifeVars, travVars, focusVars>>


\* ------------------------------------------- keepSelection (keepSelection.ts)
\* the deepest leaf under n, at its first or at its last child
RECURSIVE DeepestLeaf(_, _, _)
DeepestLeaf(cn, n, atEnd) ==
    IF cn[n] = <<>> THEN n
    ELSE DeepestLeaf(cn, IF atEnd THEN cn[n][Len(cn[n])] ELSE Head(cn[n]), atEnd)
\* normalizeEditorPoint(container, offset): a point in a leaf is kept; a point
\* in an element goes down to the deepest leaf at the offset
NormalizeEditorPoint(cn, len, container, offset) ==
    IF cn[container] = <<>> THEN Position(container, offset)
    ELSE IF offset < Len(cn[container])
    THEN Position(DeepestLeaf(cn, cn[container][offset + 1], FALSE), 0)
    ELSE LET leaf == DeepestLeaf(cn, container, TRUE)
         IN  Position(leaf, MaxOffsetOfNode(cn, len, leaf))

\* what a callback does to the page: nothing, the removal of a node, or the
\* truncation of a text node
Mutation(kind, node, length) == [kind |-> kind, node |-> node, length |-> length]
Mutations(cn, names) ==
    {Mutation("none", NoNode, 0)}
        \cup {Mutation("remove", n, 0) : n \in {m \in Nodes : Editor_contains(cn, m)}}
        \cup {Mutation("truncate", n, k) :
                 n \in {m \in Nodes : names[m] = "#text" /\ Editor_contains(cn, m)},
                 k \in 0..MaxText - 1}
MutatedChildNodes(cn, m) ==
    IF m.kind = "remove" THEN RemoveChild(cn, m.node) ELSE cn
MutatedData(len, m) ==
    IF m.kind = "truncate" THEN [len EXCEPT ![m.node] = m.length] ELSE len
\* the DOM keeps a live range on the tree while the tree changes
LivePoint(cn, m, pt) ==
    IF m.kind = "remove"
    THEN LET parent == ParentNode(cn, m.node)
             index == IndexIn(cn[parent], m.node) - 1
         IN  IF Node_contains(cn, m.node, pt.node) THEN Position(parent, index)
             ELSE IF pt.node = parent /\ pt.offset > index
             THEN Position(parent, pt.offset - 1)
             ELSE pt
    ELSE IF m.kind = "truncate" /\ pt.node = m.node /\ pt.offset > m.length
    THEN Position(m.node, m.length)
    ELSE pt
LiveRange(cn, m, r) ==
    IF ~r.exists THEN r
    ELSE LET s == LivePoint(cn, m, Position(r.startContainer, r.startOffset))
             e == LivePoint(cn, m, Position(r.endContainer, r.endOffset))
         IN  Range(s.node, s.offset, e.node, e.offset)

\* what a callback returns: nothing, a node, or a range
Fallback(kind, node, range) == [kind |-> kind, node |-> node, range |-> range]
NoFallback == Fallback("void", NoNode, NoRange)
Fallbacks ==
    {NoFallback}
        \cup {Fallback("node", n, NoRange) : n \in Nodes}
        \cup {Fallback("range", NoNode, Range(ContentDiv, 0, ContentDiv, 0))}

\* faulty variant: the offset is not clamped
ValidateEditorPoint_offset_unclamped(cn, len, point) == point.offset

\* validateEditorPoint, lines 37-44: the offset is clamped to the length of
\* the text or to the number of children
ValidateEditorPoint_offset(cn, len, point) ==
    IF point.offset < MaxOffsetOfNode(cn, len, point.node)
    THEN point.offset ELSE MaxOffsetOfNode(cn, len, point.node)

\* validateEditorPoint(editor, point) (keepSelection.ts 35-48): <<the value
\* returned, the point as the call leaves it>>
ValidateEditorPoint(cn, len, point) ==
    IF point.node # NoNode /\ Editor_contains(cn, point.node)
    THEN LET clamped == Position(point.node,
                                 ValidateEditorPoint_offset(cn, len, point))
         IN  <<clamped.offset >= 0, clamped>>
    ELSE <<FALSE, point>>

\* Range.selectNode(node): the range around the node in its parent
Range_selectNode(cn, node) ==
    LET parent == ParentNode(cn, node)
        index == IndexIn(cn[parent], node) - 1
    IN  Range(parent, index, parent, index + 1)

\* what a call of keepSelection did: the points it saved, the outcome, the
\* range it passed to editor.updateSelection, the fallback it looked at
Kept(startPoint, endPoint, branch, range, fallback) ==
    <<startPoint, endPoint, branch, range, fallback>>

\* keepSelection(editor, callback) (keepSelection.ts 11-33); the callback
\* changes the page by `mutation` and returns `fallback`
KeepSelection(mutation, fallback) ==
    /\ answer.op = "none"
    /\ LET range == selectionRange
           startPoint == IF range.exists
                         THEN NormalizeEditorPoint(childNodes, nodeData,
                                  range.startContainer, range.startOffset)
                         ELSE NoPosition
           endPoint == IF range.exists
                       THEN NormalizeEditorPoint(childNodes, nodeData,
                                range.endContainer, range.endOffset)
                       ELSE NoPosition
           cn == MutatedChildNodes(childNodes, mutation)
           len == MutatedData(nodeData, mutation)
           live == LiveRange(childNodes, mutation, range)
           validStart == ValidateEditorPoint(cn, len, startPoint)
           validEnd == ValidateEditorPoint(cn, len, endPoint)
           Update(branch, r) ==
               /\ selectionRange' = IF r.exists THEN r ELSE selectionRange
               /\ answer' = Answer("keepSelection",
                                   Kept(startPoint, endPoint, branch, r,
                                        IF branch = "restored"
                                        THEN NoFallback ELSE fallback),
                                   TRUE, NoException)
           Throw(branch, error) ==
               /\ selectionRange' = live
               /\ answer' = Answer("keepSelection",
                                   Kept(startPoint, endPoint, branch, NoRange,
                                        fallback),
                                   FALSE, error)
       IN  /\ childNodes' = cn
           /\ nodeData' = len
           /\ IF range.exists /\ validStart[1] /\ validEnd[1]
              THEN Update("restored",
                          Range_setEnd(cn, Range_setStart(cn, live, validStart[2]),
                                       validEnd[2]))
              ELSE IF fallback.kind = "node"
              THEN IF ~range.exists
                   THEN Throw("node", "TypeError")
                   ELSE IF ParentNode(cn, fallback.node) = NoNode
                   THEN Throw("node", "InvalidNodeTypeError")
                   ELSE Update("node", Range_selectNode(cn, fallback.node))
              ELSE IF fallback.kind = "range"
              THEN Update("range", fallback.range)
              ELSE Update("void", live)
    /\ UNCHANGED <<nodeName, instance, created>>
    /\ UNCHANGED <<undoVars, lifeVars, travVars, focusVars>>

\* ------------------------------------------- focus and blur (Editor.ts)
\* core.api.getSelectionRange(core, false): the live selection of the editor
GetSelectionRange_live(live) == live
\* Editor.saveSelectionRange (lines 377-382): the value stored in the cache
Editor_saveSelectionRange(live) == GetSelectionRange_live(live)
\* focus handler, line 634: if (cachedSelectionRange && !disableRestoreSelectionOnFocus)
OnFocus_restores(cached, disabled) == cached # NoRange /\ ~disabled

\* faulty variant: the cache is cleared only when restoring is enabled
OnFocus_cachedSelectionRange_unlessDisabled(cached, disabled) ==
    IF disabled THEN cached ELSE NoRange

\* focus handler, line 637: core.cachedSelectionRange = null
OnFocus_cachedSelectionRange(cached, disabled) == NoRange

\* the handler of blur (lines 639-646)
OnBlur ==
    /\ cachedSelectionRange' = Editor_saveSelectionRange(selectionRange)
    /\ answer' = Answer("blur", <<>>, FALSE, NoException)
    /\ UNCHANGED <<childNodes, nodeName, nodeData, selectionRange, instance,
                   created, disableRestoreSelectionOnFocus>>
    /\ UNCHANGED <<undoVars, lifeVars, travVars>>

\* the handler of focus (lines 632-638); answer.value: updateSelection was
\* called
OnFocus ==
    LET restores == OnFocus_restores(cachedSelectionRange,
                                     disableRestoreSelectionOnFocus)
    IN  /\ selectionRange' = IF restores THEN cachedSelectionRange
                             ELSE selectionRange
        /\ cachedSelectionRange' =
               OnFocus_cachedSelectionRange(cachedSelectionRange,
                                            disableRestoreSelectionOnFocus)
        /\ answer' = Answer("focus", <<>>, restores, NoException)
        /\ UNCHANGED <<childNodes, nodeName, nodeData, instance, created,
                       disableRestoreSelectionOnFocus>>
        /\ UNCHANGED <<undoVars, lifeVars, travVars>>

\* host: the user or a script moves or removes the selection of the editor
SelectionChange(range) ==
    /\ range # selectionRange
    /\ selectionRange' = range
    /\ answer' = Answer("select", <<>>, FALSE, NoException)
    /\ UNCHANGED <<childNodes, nodeName, nodeData, instance, created, focusVars>>
    /\ UNCHANGED <<undoVars, lifeVars, travVars>>

\* ------------------------------------- BlockElement and InlineElement model
\* A block: a Node-block anchored at one block-level node (start = end), or
\* a Start-End block over a run of sibling nodes.  An inline element: a leaf
\* and the part of it between two offsets.
BlockElement(kind, start, end) == [kind |-> kind, start |-> start, end |-> end]
NodeBlockElement(node) == BlockElement("Node", node, node)
StartEndBlockElement(start, end) == BlockElement("StartEnd", start, end)
NoBlockElement == BlockElement("none", NoNode, NoNode)
InlineElement(node, from, to) == [node |-> node, from |-> from, to |-> to]
NoInlineElement == InlineElement(NoNode, 0, 0)

\* the nearest block-level node that is n or holds n, below root
RECURSIVE BlockAncestor(_, _, _, _)
BlockAncestor(cn, names, root, n) ==
    IF n \notin Nodes \/ n = root THEN NoNode
    ELSE IF IsBlockLevel(names[n]) THEN n
    ELSE BlockAncestor(cn, names, root, ParentNode(cn, n))

\* faulty variant: a run is bounded by the leaves at its edges
RunEdge_leaf(cn, n, atEnd) == DeepestLeaf(cn, n, atEnd)

\* the node that bounds a run at its first or last sibling n
RunEdge(cn, n, atEnd) == n

\* the maximal run of inline siblings around the i-th child of root: it
\* reaches back to a block-level node or a line break, and forward to a
\* block-level node or through a line break
RunOfSiblings(cn, names, root, i) ==
    LET kids == cn[root]
        Inline_(k) == ~IsBlockLevel(names[kids[k]])
        Opens(j) == \A k \in j..i - 1 : Inline_(k) /\ names[kids[k]] # "BR"
        Closes(j) == \A k \in i + 1..j : Inline_(k) /\ names[kids[k - 1]] # "BR"
        from == CHOOSE j \in 1..i : Opens(j) /\ \A k \in 1..j - 1 : ~Opens(k)
        to == CHOOSE j \in i..Len(kids) :
                  Closes(j) /\ \A k \in j + 1..Len(kids) : ~Closes(k)
    IN  <<kids[from], kids[to]>>

\* getBlockElementAtNode(rootNode, node): the block-level ancestor of the node
\* within the root, or else the run of inline siblings that holds it
GetBlockElementAtNode(cn, names, root, node) ==
    IF ~Contains(cn, root, node) THEN NoBlockElement
    ELSE IF BlockAncestor(cn, names, root, node) # NoNode
    THEN NodeBlockElement(BlockAncestor(cn, names, root, node))
    ELSE LET run == RunOfSiblings(cn, names, root,
                        IndexIn(cn[root], ChildToward(cn, root, node)))
         IN  StartEndBlockElement(RunEdge(cn, run[1], FALSE),
                                  RunEdge(cn, run[2], TRUE))

\* getFirstBlockElement(rootNode): none for an empty root
GetFirstBlockElement(cn, names, root) ==
    IF cn[root] = <<>> THEN NoBlockElement
    ELSE GetBlockElementAtNode(cn, names, root, Head(cn[root]))

\* the block after (dir 1) or before (dir -1) block b under root
GetAdjacentBlockElement(cn, names, root, b, dir) ==
    LET edge == IF dir = 1 THEN b.end ELSE b.start
        kids == cn[ParentNode(cn, edge)]
        i == IndexIn(kids, edge) + dir
    IN  IF i \in DOMAIN kids
        THEN GetBlockElementAtNode(cn, names, root, kids[i])
        ELSE NoBlockElement

\* BlockElement.equals: same start and end node
BlockElement_equals(a, b) == a.start = b.start /\ a.end = b.end
\* the sibling nodes a block spans, and the nodes in them
BlockElement_contentNodes(cn, b) ==
    LET kids == cn[ParentNode(cn, b.start)]
    IN  SubSeq(kids, IndexIn(kids, b.start), IndexIn(kids, b.end))
BlockElement_contains(cn, b, n) ==
    /\ b # NoBlockElement
    /\ \E x \in Members(BlockElement_contentNodes(cn, b)) : Node_contains(cn, x, n)
\* BlockElement.isInBlock(inlineElement)
BlockElement_isInBlock(cn, b, inline) ==
    inline # NoInlineElement /\ BlockElement_contains(cn, b, inline.node)

\* the whole inline element of a leaf; none for a node that is no leaf
InlineElementOf(cn, names, len, n) ==
    IF n \in Nodes /\ IsLeaf(names[n])
    THEN InlineElement(n, 0, MaxOffsetOfNode(cn, len, n))
    ELSE NoInlineElement
\* depth-first search through the nodes of seq, from its end when atEnd, for
\* the first text-bearing or void leaf; NoNode when there is none
RECURSIVE LeafSearch(_, _, _, _)
LeafSearch(cn, names, seq, atEnd) ==
    IF seq = <<>> THEN NoNode
    ELSE LET n == IF atEnd THEN seq[Len(seq)] ELSE Head(seq)
             rest == IF atEnd THEN SubSeq(seq, 1, Len(seq) - 1) ELSE Tail(seq)
             found == IF IsLeaf(names[n]) THEN n
                      ELSE LeafSearch(cn, names, cn[n], atEnd)
         IN  IF found # NoNode THEN found
             ELSE LeafSearch(cn, names, rest, atEnd)
\* getFirstInlineElement(rootNode)
GetFirstInlineElement(cn, names, len, root) ==
    InlineElementOf(cn, names, len, LeafSearch(cn, names, cn[root], FALSE))
\* BlockElement.getFirstInlineElement / getLastInlineElement
BlockElement_getFirstInlineElement(cn, names, len, b) ==
    IF b = NoBlockElement THEN NoInlineElement
    ELSE InlineElementOf(cn, names, len,
             LeafSearch(cn, names, BlockElement_contentNodes(cn, b), FALSE))
BlockElement_getLastInlineElement(cn, names, len, b) ==
    IF b = NoBlockElement THEN NoInlineElement
    ELSE InlineElementOf(cn, names, len,
             LeafSearch(cn, names, BlockElement_contentNodes(cn, b), TRUE))

\* Editor.onKeyPress, lines 701-703: the block is balanced
OnKeyPress_balanced(cn, b) == ParentNode(cn, b.start) = ParentNode(cn, b.end)

\* ------------------------------------------------- BodyScoper, BlockScoper
\* new BodyScoper(rootNode) (BodyScoper.ts 6-7)
BodyScoper(rootNode) == [rootNode |-> rootNode]
\* BodyScoper.getStartBlockElement (BodyScoper.ts 10-12)
BodyScoper_getStartBlockElement(cn, names, sc) ==
    GetFirstBlockElement(cn, names, sc.rootNode)

\* faulty variant: the search runs from the end of the root
BodyScoper_getStartInlineElement_last(cn, names, len, sc) ==
    InlineElementOf(cn, names, len, LeafSearch(cn, names, cn[sc.rootNode], TRUE))

\* BodyScoper.getStartInlineElement (BodyScoper.ts 15-17)
BodyScoper_getStartInlineElement(cn, names, len, sc) ==
    GetFirstInlineElement(cn, names, len, sc.rootNode)

\* BodyScoper.isBlockInScope (BodyScoper.ts 20-22)
BodyScoper_isBlockInScope(cn, sc, b) == Node_contains(cn, sc.rootNode, b.start)
\* BodyScoper.trimInlineElement (BodyScoper.ts 25-27)
BodyScoper_trimInlineElement(sc, inline) == inline

\* new BlockScoper(rootNode, position, startPosition): the block that holds
\* the position, normalized
BlockScoper(cn, names, len, position, startPosition) ==
    LET at == NormalizeEditorPoint(cn, len, position.node, position.offset)
    IN  [position |-> at, startPosition |-> startPosition,
         block |-> GetBlockElementAtNode(cn, names, ContentDiv, at.node)]
BlockScoper_getStartBlockElement(sc) == sc.block

\* faulty variant: the start position is not looked at
BlockScoper_getStartInlineElement_begin(cn, names, len, sc) ==
    BlockElement_getFirstInlineElement(cn, names, len, sc.block)

\* BlockScoper.getStartInlineElement: the first or the last inline element of
\* the block, or the inline element at the position from its offset on
BlockScoper_getStartInlineElement(cn, names, len, sc) ==
    CASE sc.startPosition = "Begin" ->
             BlockElement_getFirstInlineElement(cn, names, len, sc.block)
      [] sc.startPosition = "End" ->
             BlockElement_getLastInlineElement(cn, names, len, sc.block)
      [] OTHER ->
             IF InlineElementOf(cn, names, len, sc.position.node) = NoInlineElement
             THEN NoInlineElement
             ELSE InlineElement(sc.position.node, sc.position.offset,
                                MaxOffsetOfNode(cn, len, sc.position.node))

\* faulty variant: the rule of the body scoper
BlockScoper_isBlockInScope_underRoot(cn, sc, b) ==
    Node_contains(cn, ContentDiv, b.start)

\* BlockScoper.isBlockInScope: the block equals the start block
BlockScoper_isBlockInScope(cn, sc, b) ==
    sc.block # NoBlockElement /\ b # NoBlockElement
        /\ BlockElement_equals(sc.block, b)

\* faulty variant: the element is clipped at the position
BlockScoper_trimInlineElement_clipped(cn, sc, inline) ==
    IF BlockElement_isInBlock(cn, sc.block, inline)
    THEN IF inline.node = sc.position.node /\ inline.from < sc.position.offset
         THEN InlineElement(inline.node, sc.position.offset, inline.to)
         ELSE inline
    ELSE NoInlineElement

\* BlockScoper.trimInlineElement: the element if it is in the start block
BlockScoper_trimInlineElement(cn, sc, inline) ==
    IF BlockElement_isInBlock(cn, sc.block, inline) THEN inline
    ELSE NoInlineElement

\* the blocks under the content div, and the inline elements of the page:
\* every leaf, whole and from an offset on
RECURSIVE BlocksFrom(_, _, _)
BlocksFrom(cn, names, b) ==
    IF b = NoBlockElement THEN {}
    ELSE {b} \cup BlocksFrom(cn, names,
                             GetAdjacentBlockElement(cn, names, ContentDiv, b, 1))
BlockElements(cn, names) ==
    BlocksFrom(cn, names, GetFirstBlockElement(cn, names, ContentDiv))
InlineElements(cn, names, len) ==
    {InlineElement(n, from, MaxOffsetOfNode(cn, len, n)) :
        n \in {m \in Nodes : IsLeaf(names[m]) /\ Editor_contains(cn, m)},
        from \in 0..MaxText} \cap
    {i \in [node : Nodes, from : 0..MaxText, to : 0..MaxText] : i.from <= i.to}

\* a question put to a scoper or to the block model, and the answer
Ask(op, args, value) ==
    /\ answer.op = "none"
    /\ answer' = Answer(op, args, value, NoException)
    /\ UNCHANGED <<childNodes, nodeName, nodeData, selectionRange, instance,
                   created>>
    /\ UNCHANGED <<undoVars, lifeVars, travVars, focusVars>>

BlockScoper_GetStartBlockElement(position, startPosition) ==
    LET sc == BlockScoper(childNodes, nodeName, nodeData, position, startPosition)
    IN  Ask("BlockScoper.getStartBlockElement", <<position, startPosition>>,
            BlockScoper_getStartBlockElement(sc))
BlockScoper_GetStartInlineElement(position, startPosition) ==
    LET sc == BlockScoper(childNodes, nodeName, nodeData, position, startPosition)
    IN  Ask("BlockScoper.getStartInlineElement", <<position, startPosition>>,
            BlockScoper_getStartInlineElement(childNodes, nodeName, nodeData, sc))
BlockScoper_IsBlockInScope(position, startPosition, b) ==
    LET sc == BlockScoper(childNodes, nodeName, nodeData, position, startPosition)
    IN  Ask("BlockScoper.isBlockInScope", <<position, startPosition, b>>,
            BlockScoper_isBlockInScope(childNodes, sc, b))
BlockScoper_TrimInlineElement(position, startPosition, inline) ==
    LET sc == BlockScoper(childNodes, nodeName, nodeData, position, startPosition)
    IN  Ask("BlockScoper.trimInlineElement", <<position, startPosition, inline>>,
            BlockScoper_trimInlineElement(childNodes, sc, inline))

BodyScoper_GetStartBlockElement(rootNode) ==
    Ask("BodyScoper.getStartBlockElement", <<rootNode>>,
        BodyScoper_getStartBlockElement(childNodes, nodeName, BodyScoper(rootNode)))
BodyScoper_GetStartInlineElement(rootNode) ==
    Ask("BodyScoper.getStartInlineElement", <<rootNode>>,
        BodyScoper_getStartInlineElement(childNodes, nodeName, nodeData,
                                         BodyScoper(rootNode)))
BodyScoper_IsBlockInScope(rootNode, b) ==
    Ask("BodyScoper.isBlockInScope", <<rootNode, b>>,
        BodyScoper_isBlockInScope(childNodes, BodyScoper(rootNode), b))
BodyScoper_TrimInlineElement(rootNode, inline) ==
    Ask("BodyScoper.trimInlineElement", <<rootNode, inline>>,
        BodyScoper_trimInlineElement(BodyScoper(rootNode), inline))

\* the entry points of the block model
FirstBlockElement(rootNode) ==
    Ask("getFirstBlockElement", <<rootNode>>,
        GetFirstBlockElement(childNodes, nodeName, rootNode))
BlockElementAtNode(rootNode, node) ==
    Ask("getBlockElementAtNode", <<rootNode, node>>,
        GetBlockElementAtNode(childNodes, nodeName, rootNode, node))
NextBlockElement(b) ==
    Ask("getNextBlockElement", <<b>>,
        GetAdjacentBlockElement(childNodes, nodeName, ContentDiv, b, 1))
PreviousBlockElement(b) ==
    Ask("getPreviousBlockElement", <<b>>,
        GetAdjacentBlockElement(childNodes, nodeName, ContentDiv, b, 0 - 1))

\* -------------------------------------------------------- initial states
\* the undo engine of a constructed editor, before any operation
InitUndo(contents) ==
    /\ content \in contents
    /\ selection = 0
    /\ snapshots = <<>>
    /\ currentIndex = 0
    /\ suspendUndo = FALSE
    /\ stack = <<>>
    /\ exc = NoException
    /\ trace = <<>>
    /\ last = NoLast

\* an Editor object that is not constructed yet
InitLifecycle ==
    /\ core = Undefined
    /\ plugins = <<>>
    /\ eventDisposers = Undefined
    /\ attached = {}
    /\ customData = <<>>
    /\ idleLoopHandle = 0
    /\ timerActive = FALSE
    /\ ignoreIdleEvent = FALSE
    /\ editable = FALSE
    /\ omitContentEditable = FALSE
    /\ frames = <<>>
    /\ lifeLast = NothingDone

\* an editor constructed with default options: no plugin but the undo
\* service, no idle loop
LiveEditor ==
    /\ core = "core"
    /\ plugins = <<"initialized">>
    /\ eventDisposers = "array"
    /\ attached = DomEvents
    /\ customData = <<>>
    /\ idleLoopHandle = 0
    /\ timerActive = FALSE
    /\ ignoreIdleEvent = FALSE
    /\ editable = TRUE
    /\ omitContentEditable = FALSE
    /\ frames = <<>>
    /\ lifeLast = NothingDone

\* no traverser has been asked for
NoTraverser ==
    /\ doc = <<>>
    /\ scoper = NoScoper
    /\ traverser = NotBuilt
    /\ visited = <<>>

\* a document, no traverser yet
InitTraverser ==
    /\ doc \in Docs
    /\ scoper = NoScoper
    /\ traverser = NotBuilt
    /\ visited = <<>>

\* nothing cached, options.disableRestoreSelectionOnFocus not given
NoCache ==
    /\ cachedSelectionRange = NoRange
    /\ disableRestoreSelectionOnFocus = FALSE

\* no page: the content div alone
NoPage ==
    /\ childNodes = [p \in {ContentDiv} \cup Nodes |-> <<>>]
    /\ nodeName = [n \in Nodes |-> "#text"]
    /\ nodeData = [n \in Nodes |-> 0]
    /\ selectionRange = NoRange
    /\ instance = NoInstance
    /\ created = 0
    /\ answer = NoAnswer
    /\ NoCache

\* a page out of `pages`, with a selection or without: text nodes hold
\* MaxText characters
InitSelectedPage(pages) ==
    /\ \E pg \in pages :
           /\ childNodes = TreeOf(pg[1])
           /\ nodeName = pg[2]
           /\ nodeData = [n \in Nodes |-> IF pg[2][n] = "#text" THEN MaxText ELSE 0]
    /\ selectionRange \in NativeRanges(childNodes, nodeData) \cup {NoRange}
    /\ instance = NoInstance
    /\ created = 0
    /\ answer = NoAnswer
    /\ NoCache

\* a page out of `pages`: text nodes hold MaxText characters
InitPage(pages) ==
    /\ \E pg \in pages :
           /\ childNodes = TreeOf(pg[1])
           /\ nodeName = pg[2]
           /\ nodeData = [n \in Nodes |-> IF pg[2][n] = "#text" THEN MaxText ELSE 0]
    /\ selectionRange = NoRange
    /\ instance = NoInstance
    /\ created = 0
    /\ answer = NoAnswer
    /\ NoCache

Init == InitUndo(Contents) /\ LiveEditor /\ NoTraverser /\ NoPage

\* the supported API
Next ==
    \/ \E cb \in CallbackArgs, args \in CallArgs :
           RunWithUndoEnter(cb, args[1], args[2])
    \/ \E c \in Contents : \E s \in Selections(c) : CallbackMutate(c, s)
    \/ CallbackReturn
    \/ DispatchReturn
    \/ \E e \in Exceptions : CallbackThrow(e)
    \/ Propagate
    \/ CallbackCatch
    \/ CallerCatch
    \/ Undo
    \/ Redo
    \/ \E c \in Contents : SetContent(c)

Spec == Init /\ [][Next]_vars

\* the supported API and the deprecated Editor.addUndoSnapshot
NextHandlers ==
    \/ Next
    \/ AddUndoSnapshot

SpecHandlers == Init /\ [][NextHandlers]_vars

\* the supported API and the deprecated Editor.runWithoutAddingUndoSnapshot
NextDeprecated ==
    \/ Next
    \/ RunWithoutAddingUndoSnapshotEnter

SpecDeprecated == Init /\ [][NextDeprecated]_vars

\* the life of one Editor object: construction, custom data, deferred
\* callbacks, the idle loop, dispose
NextLifecycle ==
    \/ \E tag \in Tags, n \in 0..MaxPlugins, initial \in InitialContents,
          omit \in BOOLEAN, idle \in IdleSpans :
           Construct(tag, n, initial, omit, idle)
    \/ \E key \in 1..MaxData, disposer \in {Undefined, "disposer"} :
           GetCustomData(key, disposer)
    \/ \E thrower \in Throwers : Dispose(thrower)
    \/ IdleTick
    \/ \E callback \in CallbackArgs : RunAsync(callback)
    \/ \E i \in 1..MaxFrames : FrameFire(i)

\* before the constructor runs
InitEditor == InitUndo({0}) /\ InitLifecycle /\ NoTraverser /\ NoPage
SpecLifecycle == InitEditor /\ [][NextLifecycle]_vars

\* the idle loop of one Editor object
NextIdle ==
    \/ \E tag \in Tags, n \in 0..MaxPlugins, initial \in InitialContents,
          omit \in BOOLEAN, idle \in IdleSpans :
           Construct(tag, n, initial, omit, idle)
    \/ SetIgnoreIdleEvent
    \/ IdleTick
    \/ \E thrower \in Throwers : Dispose(thrower)

SpecIdle == InitEditor /\ [][NextIdle]_vars

\* one traverser walking one document
NextTraverser ==
    \/ \E sc \in Scopers(doc) : GetContentTraverser(sc)
    \/ NextBlock
    \/ PreviousBlock
    \/ NextInline
    \/ PreviousInline

\* a constructed editor over some document, no traverser requested yet
InitDocument == InitUndo({0}) /\ LiveEditor /\ InitTraverser /\ NoPage
SpecTraverser == InitDocument /\ [][NextTraverser]_vars

\* the Node API of the editor
NextNode ==
    \/ \E node \in Nodes \cup {NoNode} : DeleteNode(node)
    \/ \E existingNode \in Nodes \cup {NoNode}, toNode \in Nodes \cup {NoNode} :
           ReplaceNode(existingNode, toNode)

\* a constructed editor over some page; the Node API does not read the node
\* names, the nodes are paragraphs
Paragraphs == {pg \in Pages : \A n \in Nodes : pg[2][n] = "P"}
InitNode == InitUndo({0}) /\ LiveEditor /\ NoTraverser /\ InitPage(Paragraphs)
SpecNode == InitNode /\ [][NextNode]_vars

\* one SelectionRange object over a page of inline containers and text
TextPages ==
    {pg \in Pages : \A n \in Nodes :
        /\ pg[1][n] # NoNode
        /\ pg[2][n] = IF \E m \in Nodes : pg[1][m] = n THEN "SPAN" ELSE "#text"}
NextSelectionRange ==
    \/ /\ ~instance.built
       /\ \E raw \in NativeRanges(childNodes, nodeData) :
              NewSelectionRange_fromRange(raw)
    \/ /\ ~instance.built
       /\ \E start \in Positions(childNodes, nodeData),
             end \in Positions(childNodes, nodeData) \cup {NoPosition} :
              NewSelectionRange(start, end)
    \/ GetRange

InitSelectionRange ==
    InitUndo({0}) /\ LiveEditor /\ NoTraverser /\ InitPage(TextPages)
SpecSelectionRange == InitSelectionRange /\ [][NextSelectionRange]_vars

\* one call of keepSelection on a page of inline containers and text, a line
\* break at most at the end of a container
InlinePages ==
    {pg \in Pages : \A n \in Nodes :
        /\ pg[1][n] # NoNode
        /\ IF \E m \in Nodes : pg[1][m] = n
           THEN pg[2][n] = "SPAN" ELSE IsLeaf(pg[2][n])
        /\ pg[2][n] = "BR" => ~\E m \in Nodes : m > n /\ pg[1][m] = pg[1][n]}
NextKeepSelection ==
    \E mutation \in Mutations(childNodes, nodeName), fallback \in Fallbacks :
        KeepSelection(mutation, fallback)

InitKeepSelection ==
    InitUndo({0}) /\ LiveEditor /\ NoTraverser /\ InitSelectedPage(InlinePages)
SpecKeepSelection == InitKeepSelection /\ [][NextKeepSelection]_vars

\* focus, blur and selection changes on a page of texts under the content
\* div, without a selection at first, restoring on focus disabled or not; the
\* selection is a caret anywhere or one whole text
FlatPages == {pg \in TextPages : \A n \in Nodes : pg[1][n] = ContentDiv}
FocusRanges ==
    {Range(p.node, p.offset, p.node, p.offset) :
        p \in Positions(childNodes, nodeData)}
        \cup {Range(n, 0, n, nodeData[n]) : n \in Nodes}
InitFocusPage ==
    /\ \E pg \in FlatPages :
           /\ childNodes = TreeOf(pg[1])
           /\ nodeName = pg[2]
           /\ nodeData = [n \in Nodes |-> IF pg[2][n] = "#text" THEN MaxText ELSE 0]
    /\ selectionRange = NoRange
    /\ instance = NoInstance
    /\ created = 0
    /\ answer = NoAnswer
    /\ cachedSelectionRange = NoRange
    /\ disableRestoreSelectionOnFocus \in BOOLEAN
NextFocus ==
    \/ OnBlur
    \/ OnFocus
    \/ \E range \in FocusRanges \cup {NoRange} : SelectionChange(range)

InitFocus == InitUndo({0}) /\ LiveEditor /\ NoTraverser /\ InitFocusPage
SpecFocus == InitFocus /\ [][NextFocus]_vars

\* questions to the scopers and the block model over a page of paragraphs
\* under the content div and inline content
BlockPages ==
    {pg \in Pages : \A n \in Nodes :
        /\ pg[1][n] # NoNode
        /\ IsBlockLevel(pg[2][n]) => pg[1][n] = ContentDiv
        /\ (\E m \in Nodes : pg[1][m] = n) => ~IsLeaf(pg[2][n])
        /\ pg[2][n] = "SPAN" => \E m \in Nodes : pg[1][m] = n}
\* the roots a body scoper is made over
RootNodes == {ContentDiv} \cup {n \in Nodes : childNodes[n] # <<>>}
NextScoper ==
    /\ answer.op = "none"
    /\ \/ \E position \in Positions(childNodes, nodeData),
             startPosition \in ContentPositions :
              \/ BlockScoper_GetStartBlockElement(position, startPosition)
              \/ BlockScoper_GetStartInlineElement(position, startPosition)
              \/ \E b \in BlockElements(childNodes, nodeName) :
                     BlockScoper_IsBlockInScope(position, startPosition, b)
              \/ \E inline \in InlineElements(childNodes, nodeName, nodeData) :
                     BlockScoper_TrimInlineElement(position, startPosition, inline)
       \/ \E rootNode \in RootNodes :
              \/ BodyScoper_GetStartBlockElement(rootNode)
              \/ BodyScoper_GetStartInlineElement(rootNode)
              \/ \E b \in BlockElements(childNodes, nodeName) :
                     BodyScoper_IsBlockInScope(rootNode, b)
              \/ \E inline \in InlineElements(childNodes, nodeName, nodeData) :
                     BodyScoper_TrimInlineElement(rootNode, inline)
              \/ FirstBlockElement(rootNode)
              \/ \E node \in Nodes : BlockElementAtNode(rootNode, node)
       \/ \E b \in BlockElements(childNodes, nodeName) :
              \/ NextBlockElement(b)
              \/ PreviousBlockElement(b)

InitScoper == InitUndo({0}) /\ LiveEditor /\ NoTraverser /\ InitPage(BlockPages)
SpecScoper == InitScoper /\ [][NextScoper]_vars

TypeOK ==
    /\ content \in Contents
    /\ selection \in Selections(content)
    /\ currentIndex \in 0..Len(snapshots)
    /\ Len(snapshots) <= MaxSnapshots
    /\ suspendUndo \in BOOLEAN
    /\ Len(stack) <= MaxDepth

\* ---------------------------------------------------------------- claims
Returned == stack = <<>> /\ last.op = "returned"
Threw == stack = <<>> /\ last.op = "threw"
HasCallback == \E i \in 1..Len(trace) : trace[i] = EvCallback
CallbackThrew == \E i \in 1..Len(trace) : IsThrow(trace[i])
Snapshots == Count(trace, IsSnapshot)
Notifications == SelectSeq(trace, IsNotify)

\* C1: inside one outermost runWithUndo call whose callbacks return normally,
\* core.undo.addUndoSnapshot is invoked exactly twice, once before the
\* outermost callback starts and once after it returns, and never by a nested
\* call.
C1_OneSnapshotPair ==
    Single(trace) =>
        /\ \A i \in 1..Len(trace) :
               IsSnapshot(trace[i]) => trace[i] = EvSnapshot(FALSE)
        /\ Snapshots <= 2
        /\ (Returned /\ HasCallback) =>
               /\ Snapshots = 2
               /\ trace[2] = EvSnapshot(FALSE)
               /\ trace[3] = EvCallback
               /\ trace[4] = EvDone("returned", "")
               /\ trace[5] = EvSnapshot(FALSE)

C1_Witness ==
    Returned /\ HasCallback /\ Single(trace) /\ last.nested /\ Snapshots = 2

\* the log of a call with a callback and a non-empty changeSource that
\* returns normally
Expected(enter) ==
    <<enter, EvSnapshot(FALSE), EvCallback, EvDone("returned", ""),
      EvSnapshot(FALSE),
      EvNotify(Editor_runWithUndo_changeSource(enter.b),
               RunWithUndo_eventData(enter.c)),
      EvExit("returned", "")>>

\* t follows exp up to some step k and then stops, or ends by an exception
\* thrown by the callback (k = 3) or by the dispatch of the event (k = 6)
OrderOK(t, exp) ==
    \E k \in 0..Len(t) :
        /\ k <= Len(exp)
        /\ \A i \in 1..k : t[i] = exp[i]
        /\ LET rest == SubSeq(t, k + 1, Len(t))
           IN  \/ rest = <<>>
               \/ \E e \in Exceptions :
                      \/ k = 3 /\ rest = <<EvDone("threw", e), EvExit("threw", e)>>
                      \/ k = 6 /\ rest = <<EvExit("threw", e)>>

\* C2: within one outermost runWithUndo call with a callback and a non-empty
\* changeSource the order is: before-snapshot, callback (every nested call
\* runs while its caller is running), after-snapshot, ContentChanged event.
C2_StrictOrder ==
    (/\ Single(trace)
     /\ HasCallback
     /\ Truthy(Editor_runWithUndo_changeSource(trace[1].b))) =>
        /\ OrderOK(trace, Expected(trace[1]))
        /\ Depth >= 2 => Len(trace) \in {3, 6}

C2_Witness ==
    /\ Returned /\ Single(trace) /\ last.nested
    /\ trace = Expected(trace[1])
    /\ trace[1].b = "Paste"

\* C3: when the callback of an outermost runWithUndo call throws, the flag is
\* false once the call has exited, the exception that leaves the call is the
\* one the callback threw, and the next top-level call is outermost again and
\* takes its snapshot.
C3_ExitByException ==
    (Threw /\ trace # <<>> /\ IsOutermostEnter(trace[1]) /\ CallbackThrew) =>
        LET thrown == (CHOOSE i \in 1..Len(trace) : IsThrow(trace[i]))
        IN  /\ suspendUndo = FALSE
            /\ trace[Len(trace)] = EvExit("threw", trace[thrown].b)
            /\ exc \in {trace[thrown].b, NoException}

C3_FlagClearedOnThrow ==
    /\ C3_ExitByException
    /\ [][/\ C3_ExitByException'
          /\ (/\ Threw /\ CallbackThrew
              /\ \E cb \in CallbackArgs, args \in CallArgs :
                     RunWithUndoEnter(cb, args[1], args[2])) =>
                 /\ IsOutermostEnter(trace'[1])
                 /\ trace'[2] = EvSnapshot(FALSE)
         ]_vars

C3_Witness ==
    /\ Threw /\ CallbackThrew
    /\ IsOutermostEnter(trace[1])
    /\ exc # NoException
    /\ ~suspendUndo
    /\ last.nested

\* C4: when the callback of an outermost runWithUndo call throws, the snapshot
\* taken before the callback is still stored once the call has exited: the
\* current stored snapshot holds the content the call was entered with.
C4_BeforeSnapshotRetained ==
    (Threw /\ Single(trace) /\ CallbackThrew) =>
        /\ currentIndex >= 1
        /\ snapshots[currentIndex].html = last.c0

C4_Witness ==
    /\ Threw /\ Single(trace) /\ CallbackThrew
    /\ ~last.matches0
    /\ last.c1 # last.c0
    /\ snapshots[currentIndex].html = last.c0

\* C5: a runWithUndo call entered with the flag set never clears it: when it
\* exits, by return or by exception, and when it is called without a
\* callback, the flag is unchanged and still true.
C5_NestedKeepsFlag ==
    [][/\ (/\ Depth >= 1
           /\ Top.kind = "runWithUndo"
           /\ Top.isNested
           /\ Len(stack') < Depth) =>
              (suspendUndo' = suspendUndo /\ suspendUndo' = TRUE)
       /\ (suspendUndo /\ \E args \in CallArgs :
               RunWithUndoEnter(Undefined, args[1], args[2])) =>
              suspendUndo' = TRUE
      ]_vars

C5_Witness ==
    /\ Depth = 1
    /\ Top.pc = "callback"
    /\ last.nested
    /\ suspendUndo
    /\ exc # NoException

\* C6: every operation that sets the flag leaves it, on every exit path, at
\* the value it had on entry.
C6_FlagRestoredOnExit ==
    [][(Depth >= 1 /\ Len(stack') < Depth) => suspendUndo' = Top.entryFlag]_vars

\* C7: an outermost runWithUndo call whose callback returns normally fires
\* exactly one ContentChanged event if changeSource is non-empty, with that
\* source and the data of getDataCallback (undefined without one), and none
\* if changeSource is null or empty; a nested call never fires one.
C7_Notification ==
    Single(trace) =>
        /\ Len(Notifications) <= 1
        /\ (Depth >= 1 /\ stack[1].pc = "callback") => Notifications = <<>>
        /\ (Returned /\ HasCallback) =>
               LET source == trace[1].b
                   getData == trace[1].c
                   data == IF getData = Undefined THEN Undefined ELSE getData
               IN  /\ source \in {Null, ""} => Notifications = <<>>
                   /\ Truthy(source) => Notifications = <<EvNotify(source, data)>>
                   /\ source = Undefined =>
                          Notifications = <<EvNotify("Format", data)>>

C7_Witness ==
    /\ Returned /\ HasCallback /\ Single(trace) /\ last.nested
    /\ Notifications = <<EvNotify("Paste", "data")>>

\* C8 as stated: an outermost runWithUndo whose callback leaves the content
\* as it was on entry leaves the depth of the undo stack as it was, for any
\* prior stack and content.
C8_DepthUnchanged ==
    (/\ Returned /\ HasCallback
     /\ IsOutermostEnter(trace[1])
     /\ last.c1 = last.c0) =>
        Len(snapshots) = last.depth0

\* C8 as amended: the depth is unchanged when the current stored snapshot
\* held the content on entry.
C8_DepthUnchangedWhenCurrent ==
    (/\ Returned /\ HasCallback
     /\ Single(trace)
     /\ last.c1 = last.c0
     /\ last.matches0) =>
        Len(snapshots) = last.depth0

C8_Witness ==
    /\ Returned /\ HasCallback /\ Single(trace) /\ last.nested
    /\ last.c1 = last.c0
    /\ last.matches0
    /\ Len(snapshots) = last.depth0
    /\ currentIndex < Len(snapshots)

\* C9: after an outermost runWithUndo whose callback changed the content from
\* C0 to C1 # C0, undo() restores C0 and a following redo() restores C1.
C9_UndoRedoRoundTrip ==
    (last.single /\ last.c0 # last.c1) =>
        /\ last.op = "undo" => content = last.c0
        /\ last.op = "redo" => content = last.c1

C9_Witness ==
    /\ last.op = "redo"
    /\ last.single
    /\ last.c0 # last.c1
    /\ content = last.c1

\* C10: canUndo() is true exactly when the pointer is not at the oldest
\* stored snapshot, canRedo() exactly when it is not at the newest, and
\* undo() and redo() move the pointer by exactly one entry.
C10_Availability ==
    /\ Editor_canUndo <=> (snapshots # <<>> /\ currentIndex # 1)
    /\ Editor_canRedo <=> (snapshots # <<>> /\ currentIndex # Len(snapshots))

C10_PointerMoves ==
    /\ C10_Availability
    /\ [][/\ C10_Availability'
          /\ (Undo /\ Editor_canUndo) => currentIndex' = currentIndex - 1
          /\ (Redo /\ Editor_canRedo) => currentIndex' = currentIndex + 1
         ]_vars

C10_Witness ==
    /\ last.op = "undo"
    /\ ~Editor_canUndo
    /\ Editor_canRedo

\* C11: the snapshot stack never holds more than its budget, the current
\* index always refers to a stored entry, a push that goes over the budget
\* drops entries from the oldest end only, and the entry a call leaves the
\* index on is the snapshot it took last.
C11_CurrentStored ==
    /\ Len(snapshots) <= MaxSnapshots
    /\ snapshots = <<>> => currentIndex = 0
    /\ snapshots # <<>> => currentIndex \in 1..Len(snapshots)
    /\ (Returned /\ Single(trace)) =>
           /\ currentIndex >= 1
           /\ snapshots[currentIndex].html = last.c1

C11_BoundedFifo ==
    /\ C11_CurrentStored
    /\ [][/\ C11_CurrentStored'
          /\ snapshots' # snapshots =>
                 LET full == Append(SubSeq(snapshots, 1, currentIndex),
                                    Snapshot(content, selection))
                     kept == IF Len(full) > MaxSnapshots THEN MaxSnapshots
                             ELSE Len(full)
                 IN  /\ snapshots' = SubSeq(full, Len(full) - kept + 1, Len(full))
                     /\ currentIndex' = kept
         ]_vars

C11_Witness ==
    /\ Returned /\ Single(trace)
    /\ last.evicted
    /\ Len(snapshots) = MaxSnapshots
    /\ currentIndex = MaxSnapshots
    /\ snapshots[currentIndex].html = last.c1

C13_SelectionFallback ==
    [][(/\ UndoTo(FALSE) \/ RedoTo(FALSE)
        /\ currentIndex' # currentIndex) =>
           /\ content' = snapshots[currentIndex'].html
           /\ selection' = 0
           /\ exc' = NoException
      ]_vars

C13_Witness ==
    /\ last.op = "redo"
    /\ last.single
    /\ last.c0 # last.c1
    /\ content = snapshots[currentIndex].html
    /\ snapshots[currentIndex].sel # 0
    /\ selection = 0
    /\ exc = NoException

\* C14 as stated: when the dispose() of a plugin, the disposer of a DOM event
\* or the disposer of a custom data entry throws, the teardown still
\* completes: every plugin is disposed, every subscription released, every
\* custom data entry removed, and the editor is disposed.
C14_TeardownCompletes ==
    (lifeLast.op = "dispose" /\ lifeLast.arg \in {"plugin", "event", "data"}) =>
        /\ \A i \in 1..Len(plugins) : plugins[i] = "disposed"
        /\ attached = {}
        /\ eventDisposers = Null
        /\ customData = <<>>
        /\ Editor_isDisposed(core)

\* C15: a deferred callback whose frame fires when the editor is disposed is
\* not invoked and no error is raised; one whose frame fires when the editor
\* is not disposed is invoked, and its frame is used up.
C15_FrameOutcome ==
    lifeLast.op = "frame" =>
        /\ lifeLast.err = NoException
        /\ lifeLast.disposed => lifeLast.steps = <<>>
        /\ (~lifeLast.disposed /\ lifeLast.arg # Undefined) =>
               lifeLast.steps = <<"callback">>
        /\ lifeLast.arg = Undefined => lifeLast.steps = <<>>

C15_DeferredCallback ==
    /\ C15_FrameOutcome
    /\ [][/\ C15_FrameOutcome'
          /\ \A i \in 1..MaxFrames :
                 FrameFire(i) =>
                     /\ Len(frames') = Len(frames) - 1
                     /\ lifeLast'.disposed = (core # "core")
         ]_vars

C15_Witness ==
    /\ lifeLast.op = "frame"
    /\ lifeLast.arg = "callback"
    /\ lifeLast.disposed
    /\ lifeLast.steps = <<>>
    /\ core = Null

\* C16: once dispose() has completed the interval of the idle loop is not
\* armed, so no tick runs: no Idle event is triggered and no tick reads the
\* disposed core.
C16_TimerCleared ==
    /\ core = Null => (~timerActive /\ idleLoopHandle = 0)
    /\ lifeLast.op = "tick" => (lifeLast.err = NoException /\ ~lifeLast.disposed)

C16_NoIdleAfterDispose ==
    /\ C16_TimerCleared
    /\ [][C16_TimerCleared' /\ (core = Null => ~IdleTick)]_vars

C16_Witness ==
    /\ core = Null
    /\ lifeLast.op = "dispose"
    /\ lifeLast.steps = <<"BeforeDispose", "clearInterval", "core = null">>
    /\ ~timerActive

\* C17: constructing an Editor on a container that is not a DIV throws and
\* does nothing else: no core, no plugin initialized, no handler attached, no
\* content change, no event.
C17_ConstructorRejects ==
    [][\A tag \in Tags, n \in 0..MaxPlugins, initial \in InitialContents,
          omit \in BOOLEAN, idle \in IdleSpans :
           (Construct(tag, n, initial, omit, idle) /\ tag # "DIV") =>
               /\ lifeLast'.err = "Error"
               /\ lifeLast'.steps = <<>>
               /\ core' = Undefined
               /\ UNCHANGED <<plugins, eventDisposers, attached, customData,
                              idleLoopHandle, timerActive, editable, frames,
                              undoVars>>
      ]_vars

C17_Witness ==
    /\ lifeLast.op = "construct"
    /\ lifeLast.arg = "SPAN"
    /\ lifeLast.err = "Error"
    /\ lifeLast.steps = <<>>
    /\ core = Undefined
    /\ attached = {}

\* the calls made so far are all calls of op
OnlyCalls(op) == \A i \in 1..Len(visited) : visited[i].op = op
\* the blocks in scope, and the runs the scoper does not trim to none
BlocksInScope == {b \in 1..Len(doc) : Scoper_isBlockInScope(scoper, doc, b)}
RunsInScope ==
    {p \in Runs(doc) : Scoper_trimInlineElement(scoper, Inline(p[1], p[2])) # None}
\* the values returned are pairwise different elements other than `start`,
\* none is returned within `bound` calls, and after a none only none
Exhausts(start, bound) ==
    /\ \A i \in 1..Len(visited) :
           visited[i].value # None =>
               /\ visited[i].value # start
               /\ \A j \in 1..Len(visited) :
                      (j # i) => visited[j].value # visited[i].value
    /\ Len(visited) >= bound => \E i \in 1..bound : visited[i].value = None
    /\ \A i \in 1..Len(visited) : \A j \in i..Len(visited) :
           visited[i].value = None => visited[j].value = None

\* C18: repeated nextBlock() calls (and repeated nextInline() calls) return
\* none within as many calls as there are blocks (inline runs) in scope, never
\* return an element twice, and keep returning none once they returned none.
C18_Termination ==
    traverser.built =>
        /\ OnlyCalls("nextBlock") =>
               Exhausts(Scoper_getStartBlockElement(scoper),
                        Cardinality(BlocksInScope))
        /\ OnlyCalls("nextInline") =>
               Exhausts(Trimmed(Scoper_getStartInlineElement(scoper, doc)),
                        Cardinality(RunsInScope))

C18_Witness ==
    /\ traverser.built
    /\ scoper.kind = "Body"
    /\ Len(visited) = 3
    /\ OnlyCalls("nextBlock")
    /\ visited[1].value = Block(2)
    /\ visited[2].value = None
    /\ visited[3].value = None

\* the runs a call of nextInline (dir 1) or previousInline (dir -1) may still
\* return from inline element cur: runs beyond cur that the scoper does not
\* trim to none, in the block of cur, or, unless the scoper is block-bounded,
\* in a block reached from it through blocks in scope
Beyond(p, q, dir) == p # q /\ (IF dir = 1 THEN NotAfter(p, q) ELSE NotAfter(q, p))
LaterCandidates(cur, dir) ==
    {p \in RunsInScope :
        /\ Beyond(<<cur.block, cur.run>>, p, dir)
        /\ Scoper_isBlockBounded(scoper) => p[1] = cur.block
        /\ \A b \in 1..Len(doc) :
               (Beyond(<<cur.block, MaxRuns + 1>>, <<b, MaxRuns + 1>>, dir)
                   /\ ~Beyond(<<p[1], MaxRuns + 1>>, <<b, MaxRuns + 1>>, dir))
                   => Scoper_isBlockInScope(scoper, doc, b)}
InlineReturned == visited'[Len(visited')].value
InlineStepOK(dir) ==
    LET cur == Traverser_currentInline(traverser, scoper, doc)
        later == LaterCandidates(cur, dir)
        ret == InlineReturned
    IN  /\ ret = None <=> later = {}
        /\ ret # None =>
               /\ ret.trimmed
               /\ ret = Scoper_trimInlineElement(scoper, Inline(ret.block, ret.run))
               /\ <<ret.block, ret.run>> \in later
               /\ \A q \in later :
                      q = <<ret.block, ret.run>>
                          \/ Beyond(<<ret.block, ret.run>>, q, dir)
               /\ Scoper_isBlockBounded(scoper) => ret.block = cur.block

\* C19: the element nextInline() or previousInline() returns came out of the
\* scoper's trimInlineElement and is the nearest candidate the scoper does not
\* trim to none; none is returned only when no such candidate is left, and a
\* block-bounded scoper never lets the call leave the current block.
C19_TrimmedInline ==
    [][/\ NextInline => InlineStepOK(1)
       /\ PreviousInline => InlineStepOK(-1)
      ]_vars

C19_Witness ==
    /\ traverser.built
    /\ scoper.kind = "Selection"
    /\ Len(visited) = 2
    /\ OnlyCalls("nextInline")
    /\ visited[1].value = Trimmed(Inline(scoper.to[1], scoper.to[2]))
    /\ visited[2].value = None
    /\ scoper.to[2] < doc[scoper.to[1]]

BlockStepOK(dir) ==
    LET cur == Traverser_currentBlock(traverser, scoper)
        ret == visited'[Len(visited')].value
        b == cur.block + dir
    IN  /\ ret # None =>
               /\ ret = Block(b)
               /\ b \in 1..Len(doc)
               /\ Scoper_isBlockInScope(scoper, doc, b)
        /\ ret = None <=>
               (b \notin 1..Len(doc) \/ ~Scoper_isBlockInScope(scoper, doc, b))

\* C20: nextBlock() and previousBlock() return the adjacent block when the
\* scoper has it in scope and none otherwise; they never return a block out
\* of scope and never wrap around at the first or the last block.
C20_BlockInScope ==
    [][/\ NextBlock => BlockStepOK(1)
       /\ PreviousBlock => BlockStepOK(-1)
      ]_vars

C20_Witness ==
    /\ traverser.built
    /\ scoper.kind = "Block"
    /\ Len(doc) = 2
    /\ Len(visited) = 1
    /\ visited[1] = Call("nextBlock", None)
    /\ traverser.block = Block(1)

\* the step is a call of Editor.deleteNode or Editor.replaceNode
NodeCall == answer'.op \in {"deleteNode", "replaceNode"} /\ answer' # answer
Existing == answer'.args[1]
Replacement == IF answer'.op = "replaceNode" THEN answer'.args[2] ELSE ContentDiv

\* C27: deleteNode(node) and replaceNode(existing, toNode) change the tree or
\* return true only for an existing node inside the editor; for a null node,
\* a null replacement or a node outside the editor they return false and
\* leave the tree as it was.  A call that returns true takes the existing
\* node out of the editor.
C27_OnlyWithinEditor ==
    [][NodeCall =>
         /\ (answer'.value \/ childNodes' # childNodes) =>
                Editor_contains(childNodes, Existing)
         /\ (\/ Existing = NoNode
             \/ Replacement = NoNode
             \/ ~Editor_contains(childNodes, Existing)) =>
                /\ ~answer'.value
                /\ answer'.error = NoException
                /\ childNodes' = childNodes
         /\ (answer'.value /\ Replacement # Existing) =>
                /\ ~Editor_contains(childNodes', Existing)
                /\ ParentNode(childNodes', Existing) = NoNode
                /\ answer'.op = "replaceNode" =>
                       ParentNode(childNodes', Replacement)
                           = ParentNode(childNodes, Existing)
      ]_vars

\* a node of a subtree outside the editor was asked to be deleted: nothing
\* happened
C27_Witness ==
    /\ answer.op = "deleteNode"
    /\ ~answer.value
    /\ answer.args[1] # NoNode
    /\ ParentNode(childNodes, answer.args[1]) \in Nodes
    /\ \E n \in Nodes : Editor_contains(childNodes, n)

C28_CollapsedIff ==
    instance.built =>
        (instance.collapsed <=>
            /\ instance.start.node = instance.end.node
            /\ instance.start.offset = instance.end.offset)

\* C28: a SelectionRange is collapsed exactly when its start and end have the
\* same node and the same offset; the constructor stores the Positions it is
\* given, in the order given, and a range made from one Position ends where
\* it starts and is collapsed.
C28_Collapsed ==
    /\ C28_CollapsedIff
    /\ [][/\ C28_CollapsedIff'
          /\ (answer'.op = "new SelectionRange(start, end)" /\ ~instance.built) =>
                 /\ instance'.start = answer'.args[1]
                 /\ answer'.args[2] # NoPosition =>
                        instance'.end = answer'.args[2]
                 /\ answer'.args[2] = NoPosition =>
                        /\ instance'.end = answer'.args[1]
                        /\ instance'.collapsed
         ]_vars

\* a range whose start is after its end was constructed and kept as given
C28_Witness ==
    /\ instance.built
    /\ answer.op = "new SelectionRange(start, end)"
    /\ ComparePoints(childNodes, instance.start, instance.end) = 1
    /\ instance.start.node = instance.end.node
    /\ ~instance.collapsed

\* the native range is built at most once, every call returns the same
\* object, and an instance made from a native range returns that object
Memoized ==
    /\ created <= 1
    /\ \A i, j \in 1..Len(instance.returned) :
           instance.returned[i] = instance.returned[j]
    /\ instance.given # NoNative =>
           /\ created = 0
           /\ \A i \in 1..Len(instance.returned) :
                  instance.returned[i] = instance.given
PointsAt(native, start, end) ==
    native.range = Range(start.node, start.offset, end.node, end.offset)

\* C29, as claimed: getRange() is memoized per instance, and the range it
\* returns starts and ends at the start and end Positions of the instance.
C29_Claimed ==
    instance.built =>
        /\ Memoized
        /\ \A i \in 1..Len(instance.returned) :
               PointsAt(instance.returned[i], instance.start, instance.end)

\* C29, amended: getRange() is memoized per instance, and the range it returns
\* starts and ends at the start and end Positions of the instance when the
\* start is not after the end in document order; for a start after the end
\* the range is collapsed at the end Position.
C29_Memoized ==
    instance.built =>
        /\ Memoized
        /\ \A i \in 1..Len(instance.returned) :
               IF ComparePoints(childNodes, instance.start, instance.end) # 1
               THEN PointsAt(instance.returned[i], instance.start, instance.end)
               ELSE PointsAt(instance.returned[i], instance.end, instance.end)

\* two calls on a range made from two different Positions in order: one
\* native range was built and returned twice
C29_Witness ==
    /\ instance.built
    /\ instance.given = NoNative
    /\ ComparePoints(childNodes, instance.start, instance.end) = 0 - 1
    /\ instance.start.node # instance.end.node
    /\ Len(instance.returned) = 2
    /\ created = 1

\* the step is a call of keepSelection; what the call saved and did
KeepCall == answer.op = "none" /\ answer'.op = "keepSelection"
SavedStart == answer'.args[1]
SavedEnd == answer'.args[2]
Branch == answer'.args[3]
Consulted == answer'.args[5]
StillInside ==
    /\ selectionRange.exists
    /\ Editor_contains(childNodes', SavedStart.node)
    /\ Editor_contains(childNodes', SavedEnd.node)

FallbackInside ==
    Consulted.kind = "node" => Editor_contains(childNodes', Consulted.node)

\* C25, as claimed: keepSelection always ends with the update of the editor
\* selection and raises nothing: the selection goes back to the points saved
\* before the callback when a selection existed and both points are still
\* inside the editor, and otherwise to the node or the range the callback
\* returned, also when there was no selection before the callback.  (A node
\* the callback returns is a node of the editor.)
C25_SelectionKept ==
    [][(KeepCall /\ FallbackInside) =>
         /\ answer'.value
         /\ answer'.error = NoException
         /\ StillInside =>
                /\ selectionRange'.startContainer = SavedStart.node
                /\ selectionRange'.endContainer = SavedEnd.node
         /\ (~StillInside /\ Consulted.kind = "node") =>
                selectionRange' = Range_selectNode(childNodes', Consulted.node)
         /\ (~StillInside /\ Consulted.kind = "range") =>
                selectionRange' = Consulted.range
      ]_vars

WrittenBack(saved, node, offset) ==
    /\ node = saved.node
    /\ Editor_contains(childNodes', node)
    /\ offset >= 0
    /\ offset <= MaxOffsetOfNode(childNodes', nodeData', node)
    /\ offset = saved.offset \/ offset = MaxOffsetOfNode(childNodes', nodeData', node)
    /\ offset <= saved.offset

\* C26: the points keepSelection writes back are in the editor and their
\* offsets lie within 0 and the length of the text (the number of children)
\* of their container: an offset left past the end by the callback is clamped
\* to it; a point whose container left the editor is not written back.
C26_OffsetsClamped ==
    [][KeepCall =>
         /\ Branch = "restored" =>
                /\ selectionRange' = answer'.args[4]
                /\ WrittenBack(SavedStart, selectionRange'.startContainer,
                               selectionRange'.startOffset)
                /\ WrittenBack(SavedEnd, selectionRange'.endContainer,
                               selectionRange'.endOffset)
         /\ (selectionRange.exists /\ ~StillInside) => Branch # "restored"
      ]_vars

\* the callback cut the text under the end of the selection: the end was
\* written back at the new length
C26_Witness ==
    /\ answer.op = "keepSelection"
    /\ answer.args[3] = "restored"
    /\ answer.args[2].offset > selectionRange.endOffset
    /\ selectionRange.endOffset = nodeData[selectionRange.endContainer]
    /\ selectionRange.startContainer # selectionRange.endContainer

\* the leaves at or below node n, in document order
LeavesUnder(n) ==
    SelectSeq(Preorder(childNodes, n), LAMBDA m : m \in Nodes /\ IsLeaf(nodeName[m]))
Whole(n) == InlineElement(n, 0, MaxOffsetOfNode(childNodes, nodeData, n))
Asked(op) == answer.op = op

\* C24: a body scoper over a root has a block in scope exactly when the
\* block's start node is the root or below it, hands every inline element back
\* as it got it, starts at the block that begins with the first child of the
\* root (none for an empty root) and at the whole first leaf below the root
\* (none without a leaf), whatever the selection is.
C24_BodyScoper ==
    /\ Asked("BodyScoper.isBlockInScope") =>
           (answer.value <=>
                answer.args[2].start \in Members(Preorder(childNodes, answer.args[1])))
    /\ Asked("BodyScoper.trimInlineElement") => answer.value = answer.args[2]
    /\ Asked("BodyScoper.getStartBlockElement") =>
           IF childNodes[answer.args[1]] = <<>>
           THEN answer.value = NoBlockElement
           ELSE answer.value.start = Head(childNodes[answer.args[1]])
    /\ Asked("BodyScoper.getStartInlineElement") =>
           IF LeavesUnder(answer.args[1]) = <<>>
           THEN answer.value = NoInlineElement
           ELSE answer.value = Whole(Head(LeavesUnder(answer.args[1])))
\* a root with two leaves below it is asked for its start inline element
C24_Witness ==
    /\ Asked("BodyScoper.getStartInlineElement")
    /\ Len(LeavesUnder(answer.args[1])) >= 2
    /\ answer.value = Whole(Head(LeavesUnder(answer.args[1])))

\* the place of node n in the document order of the content div, and the
\* place of the last node at or below n
PlaceOf(n) == IndexIn(Preorder(childNodes, ContentDiv), n)
LastPlaceIn(n) == PlaceOf(n) + Len(Preorder(childNodes, n)) - 1
\* node n lies in block b: in document order, not before the start node of
\* b and not after the last node below its end node
LiesIn(n, b) == PlaceOf(b.start) <= PlaceOf(n) /\ PlaceOf(n) <= LastPlaceIn(b.end)
\* the position a block scoper was made at, normalized
Anchor ==
    NormalizeEditorPoint(childNodes, nodeData, answer.args[1].node,
                         answer.args[1].offset)

\* the start block of a block scoper is the block the position lies in: none
\* in an empty content div, a Node-block at a paragraph, and otherwise a run
\* of siblings that ends with a line break or before a paragraph
StartBlockHoldsAnchor ==
    Asked("BlockScoper.getStartBlockElement") =>
        IF Anchor.node = ContentDiv THEN answer.value = NoBlockElement
        ELSE /\ LiesIn(Anchor.node, answer.value)
             /\ answer.value \in BlockElements(childNodes, nodeName)
             /\ answer.value.kind = "Node" <=> nodeName[answer.value.start] = "P"
             /\ answer.value.kind = "StartEnd" =>
                    \A n \in Members(BlockElement_contentNodes(childNodes, answer.value)) :
                        /\ nodeName[n] # "P"
                        /\ nodeName[n] = "BR" => n = answer.value.end

\* C21: a block scoper made at a position has block b in scope exactly when
\* the position lies in b, for Node-blocks and Start-End blocks alike; at most
\* one block of the page is in scope, and a block in scope has the start and
\* end node of the scoper's start block, which is the block of the page the
\* position lies in.
C21_OnlyStartBlock ==
    /\ StartBlockHoldsAnchor
    /\ Asked("BlockScoper.isBlockInScope") =>
        /\ answer.value <=> LiesIn(Anchor.node, answer.args[3])
        /\ answer.value =>
               \A b \in BlockElements(childNodes, nodeName) :
                   LiesIn(Anchor.node, b) => b = answer.args[3]
\* a Start-End block over two nodes is in scope while the page has another
\* block, which the position does not lie in
C21_Witness ==
    /\ Asked("BlockScoper.isBlockInScope")
    /\ answer.value
    /\ answer.args[3].kind = "StartEnd"
    /\ answer.args[3].start # answer.args[3].end
    /\ \E b \in BlockElements(childNodes, nodeName) :
           b # answer.args[3] /\ ~LiesIn(Anchor.node, b)

\* nodes n and m lie in one block of the page
InOneBlock(n, m) ==
    \E b \in BlockElements(childNodes, nodeName) : LiesIn(n, b) /\ LiesIn(m, b)

\* C22: trimInlineElement of a block scoper returns the inline element it was
\* given, with the same node and offsets, when the element lies in the block
\* the scoper's position lies in, and none otherwise; it never returns a part
\* of the element.
C22_TrimKeepsOrDrops ==
    Asked("BlockScoper.trimInlineElement") =>
        IF InOneBlock(Anchor.node, answer.args[3].node)
        THEN answer.value = answer.args[3]
        ELSE answer.value = NoInlineElement
\* an element that begins before the scoper's position, in the same text, is
\* returned whole
C22_Witness ==
    /\ Asked("BlockScoper.trimInlineElement")
    /\ answer.args[3].node = Anchor.node
    /\ answer.args[3].from < Anchor.offset
    /\ answer.value = answer.args[3]

\* the leaves of the block the scoper's position lies in, in document order
LeavesOfStartBlock ==
    SelectSeq(Preorder(childNodes, ContentDiv),
              LAMBDA n : n \in Nodes /\ IsLeaf(nodeName[n])
                             /\ InOneBlock(Anchor.node, n))

\* C23: the start inline element of a block scoper is, by its start position:
\* for Begin the whole first leaf of the block the position lies in, for End
\* the whole last leaf of that block, and for SelectionStart the leaf the
\* position lies in, from the position's offset to the end of the leaf, which
\* is the whole leaf when the offset is 0; none where there is no such leaf.
C23_StartInline ==
    Asked("BlockScoper.getStartInlineElement") =>
        CASE answer.args[2] = "Begin" ->
                 IF LeavesOfStartBlock = <<>> THEN answer.value = NoInlineElement
                 ELSE answer.value = Whole(Head(LeavesOfStartBlock))
          [] answer.args[2] = "End" ->
                 IF LeavesOfStartBlock = <<>> THEN answer.value = NoInlineElement
                 ELSE answer.value =
                          Whole(LeavesOfStartBlock[Len(LeavesOfStartBlock)])
          [] OTHER ->
                 IF Anchor.node \in Nodes /\ IsLeaf(nodeName[Anchor.node])
                 THEN /\ answer.value.node = Anchor.node
                      /\ answer.value.from = Anchor.offset
                      /\ answer.value.to = Whole(Anchor.node).to
                      /\ Anchor.offset = 0 => answer.value = Whole(Anchor.node)
                 ELSE answer.value = NoInlineElement
\* a scoper that starts at the selection, inside a text of a block with two
\* leaves, returns the rest of that text
C23_Witness ==
    /\ Asked("BlockScoper.getStartInlineElement")
    /\ answer.args[2] = "SelectionStart"
    /\ Len(LeavesOfStartBlock) >= 2
    /\ answer.value.from > 0
    /\ answer.value.from < answer.value.to

\* the questions that are answered with a block
BlockQuestions ==
    {"getFirstBlockElement", "getBlockElementAtNode", "getNextBlockElement",
     "getPreviousBlockElement", "BlockScoper.getStartBlockElement",
     "BodyScoper.getStartBlockElement"}

Outermost == trace # <<>> /\ IsOutermostEnter(trace[1])

\* C33: when the callback of an outermost runWithUndo call throws, the call
\* invokes core.undo.addUndoSnapshot once, before the callback, and fires no
\* ContentChanged event, so getDataCallback, whose result is the data of that
\* event, is not invoked; calls nested in the callback add nothing.
C33_ThrowSkipsTheRest ==
    (Threw /\ Outermost /\ CallbackThrew) =>
        /\ Snapshots = 1
        /\ trace[2] = EvSnapshot(FALSE)
        /\ Notifications = <<>>
        /\ Len(snapshots) <= last.depth0 + 1
\* a call with a changeSource and a getDataCallback whose callback changed the
\* content, made a nested call and then threw
C33_Witness ==
    /\ Threw /\ Outermost /\ CallbackThrew
    /\ trace[1].b = "Paste" /\ trace[1].c = "data"
    /\ last.nested
    /\ last.c1 # last.c0
    /\ Snapshots = 1

\* C34: an outermost runWithUndo call made without a callback invokes
\* core.undo.addUndoSnapshot once and does nothing else: no second snapshot
\* and no ContentChanged event, whatever changeSource is, and the flag is
\* false once it has returned.
C34_NoCallback ==
    (Returned /\ Outermost /\ ~HasCallback) =>
        /\ trace = <<trace[1], EvSnapshot(FALSE), EvExit("returned", "")>>
        /\ ~suspendUndo
        /\ Len(snapshots) <= last.depth0 + 1
\* such a call with a changeSource and a getDataCallback, made when the
\* current snapshot did not hold the content
C34_Witness ==
    /\ Returned /\ Outermost /\ ~HasCallback
    /\ trace[1].b = "Paste" /\ trace[1].c = "data"
    /\ ~last.matches0
    /\ Len(snapshots) = last.depth0 + 1

\* the ContentChanged event of the outermost call is being dispatched
Dispatching == Depth >= 1 /\ stack[1].pc = "notify" /\ ~stack[1].isNested

\* C35: the flag is set for as long as the ContentChanged event of an
\* outermost runWithUndo call is dispatched; a runWithUndo call or an
\* addUndoSnapshot call made by a handler meanwhile is nested, adds no snapshot
\* and fires no event; the flag is cleared when the dispatch returns or
\* throws.
C35_FlagHeldDuringDispatch == Dispatching => suspendUndo
C35_DispatchIsNested ==
    /\ C35_FlagHeldDuringDispatch
    /\ [][/\ C35_FlagHeldDuringDispatch'
          /\ (Dispatching /\ stack' # <<>>) =>
                 /\ snapshots' = snapshots
                 /\ currentIndex' = currentIndex
                 /\ Len(SelectSeq(trace', IsNotify)) = Len(Notifications)
                 /\ Count(trace', IsSnapshot) = Snapshots
                 /\ Len(stack') > Depth => stack'[Len(stack')].isNested
          /\ (Dispatching /\ stack' = <<>>) => ~suspendUndo'
         ]_vars
\* a handler of the event has called runWithUndo with a changeSource, and the
\* callback of that call is running
C35_Witness ==
    /\ Dispatching
    /\ Depth = 2
    /\ Top.isNested
    /\ Top.changeSource = "Paste"
    /\ Top.pc = "callback"
    /\ suspendUndo

\* the last operation was a tick of the idle loop of a live editor
Ticked == lifeLast.op = "tick" /\ lifeLast.err = NoException
\* ... that fired no Idle event
Suppressed == Ticked /\ lifeLast.steps = <<>>

\* C36: a tick of the idle loop of a live editor fires one Idle event when
\* core.ignoreIdleEvent is false, and fires none and sets it to false when it
\* is true; the flag is false after every tick, and the tick that follows a
\* suppressed tick, with nothing setting the flag between them, fires the
\* event.
C36_Tick ==
    (IdleTick /\ core = "core") =>
        /\ ~ignoreIdleEvent'
        /\ ~ignoreIdleEvent => lifeLast'.steps = <<"Idle">>
        /\ ignoreIdleEvent => lifeLast'.steps = <<>>
        /\ Suppressed => lifeLast'.steps = <<"Idle">>
C36_FlagAfterTick == Ticked => ~ignoreIdleEvent
C36_OneTickSuppressed ==
    /\ C36_FlagAfterTick
    /\ [][C36_FlagAfterTick' /\ C36_Tick]_vars
\* a tick found the flag set and fired nothing
C36_Witness ==
    /\ Suppressed
    /\ timerActive
    /\ core = "core"
    /\ ~ignoreIdleEvent

\* the places of step x among the steps of the last operation
Places(x) == {i \in 1..Len(lifeLast.steps) : lifeLast.steps[i] = x}
Before(x, y) == \A i \in Places(x), j \in Places(y) : i < j
Once(x) == Cardinality(Places(x)) = 1
Constructed == lifeLast.op = "construct" /\ lifeLast.err = NoException

\* C32: a construction that succeeds initializes every configured plugin,
\* then sets or announces and ensures the initial content, then initializes
\* the undo service and appends it to the plugin list, then attaches the DOM
\* event handlers, and broadcasts EditorReady as its last step, once.
C32_ConstructionOrder ==
    Constructed =>
        /\ Cardinality(Places("plugin.initialize")) = Len(plugins) - 1
        /\ Before("plugin.initialize", "setContent")
        /\ Before("plugin.initialize", "ContentChanged")
        /\ Before("plugin.initialize", "ensureInitialContent")
        /\ Before("setContent", "ensureInitialContent")
        /\ Before("ContentChanged", "ensureInitialContent")
        /\ Once("ensureInitialContent") /\ Once("undo.initialize")
        /\ Once("plugins.push(undo)") /\ Once("createEventHandlers")
        /\ Before("ensureInitialContent", "undo.initialize")
        /\ Before("plugin.initialize", "plugins.push(undo)")
        /\ Before("undo.initialize", "plugins.push(undo)")
        /\ Before("plugins.push(undo)", "createEventHandlers")
        /\ Places("EditorReady") = {Len(lifeLast.steps)}
        /\ attached = DomEvents
\* an editor was constructed with a plugin and with initial content
C32_Witness ==
    /\ Constructed
    /\ Len(plugins) >= 2
    /\ Places("setContent") # {}
    /\ Places("startIdleLoop") # {}

\* C31: a blur stores the live selection of the editor in the cache; a focus
\* sets the selection to the cached range if there is one and restoring on
\* focus is not disabled, and leaves the selection alone otherwise; it then
\* empties the cache in either case, so a focus that follows a focus with no
\* blur between them restores nothing.
C31_CacheEmptyAfterFocus ==
    answer.op = "focus" => cachedSelectionRange = NoRange
C31_SaveAndRestore ==
    /\ C31_CacheEmptyAfterFocus
    /\ [][/\ C31_CacheEmptyAfterFocus'
          /\ OnBlur => cachedSelectionRange' = selectionRange
          /\ OnFocus =>
                 /\ cachedSelectionRange' = NoRange
                 /\ selectionRange' =
                        IF cachedSelectionRange # NoRange
                               /\ ~disableRestoreSelectionOnFocus
                        THEN cachedSelectionRange
                        ELSE selectionRange
                 /\ answer.op = "focus" =>
                        selectionRange' = selectionRange /\ ~answer'.value
         ]_vars
\* a focus has put back the selection saved by a blur, after the selection
\* had gone
C31_Witness ==
    /\ answer.op = "focus"
    /\ answer.value
    /\ selectionRange # NoRange
    /\ selectionRange.startOffset # selectionRange.endOffset
    /\ cachedSelectionRange = NoRange
====
